---- MODULE Spec2Model ----
(***************************************************************************)
(* Model of the terminal session of nterm (src/shared/terminal/term.rs):   *)
(* the reader thread spawned by Terminal::spawn, the parser behind its     *)
(* RwLock, the PTY writer behind its Mutex, the event channel, and the     *)
(* operations the UI thread calls on a Terminal.  The theme toggle of the  *)
(* TUI frontend (src/tui/app.rs), which takes the same kind of lock on its *)
(* parser, is modelled as one more UI operation.                           *)
(*                                                                         *)
(* Two threads take steps: the pump (reader thread) and the UI thread.     *)
(* A lock acquisition is a step of its own, so that a thread waiting for a *)
(* lock is a state of the model.  The child process behind the PTY is the  *)
(* environment.                                                            *)
(***************************************************************************)
EXTENDS Integers, Sequences, FiniteSets, TLC

\* ------------------------------------------------------------------ bounds
\* Bytes the child writes in a logged run.
MaxBytes == 3
\* Bytes the kernel holds between the child's write and the pump's read.
PtyCap == 2
\* Events the channel of an endless run holds.
MaxQueue == 2

\* --------------------------------------------------------- program constants
\* let mut buf = [0u8; 4096]
BufSize == 4096

\* The k-th byte the child writes in a logged run: all different, so that a
\* chunk that is lost, repeated or out of place shows.  An endless run repeats one byte.
ByteAt(k) == 64 + k

\* The control bytes of send_interrupt, send_eof, send_suspend.
CtrlC == 3
CtrlD == 4
CtrlZ == 26

\* The data of the input() calls of the model.
InputData == {<<CtrlC>>, <<120, 121>>}

\* "\x1b[0m\x1b[2J\x1b[H"
reset_seq == <<27, 91, 48, 109, 27, 91, 50, 74, 27, 91, 72>>

\* TerminalSize values of the model; TerminalView::new starts at 24 x 80.
TerminalSize(rows, cols) == [rows |-> rows, cols |-> cols]

Sizes == {TerminalSize(24, 80), TerminalSize(10, 40)}

\* TerminalEvent
Output == [type |-> "Output"]

Exit(code) == [type |-> "Exit", code |-> code]

Error(msg) == [type |-> "Error", msg |-> msg]

\* The operations that take the read lock on the parser.
QueryOps == {"cells", "row", "cursor_position", "cursor_visible", "scrollback_len"}

\* The row_idx of the row() calls of the model: a row of the 24-row grid that
\* the 10-row grid does not have, and the last u16.
RowIndices == {15, 65535}

\* The arguments of a query, as the list of them: row() takes a row_idx, the
\* others nothing.
QueryArgs(op) == IF op = "row" THEN {<<row_idx>> : row_idx \in RowIndices} ELSE {<<>>}

VARIABLES
    logging,      \* TRUE: a bounded run whose contents are logged; FALSE: an endless stream, contents dropped
    ptyOut,       \* bytes the child wrote that the pump has not read yet
    childOpen,    \* the child still holds the slave side of the PTY
    produced,     \* bytes the child has written (logged runs)
    pumpPc,       \* position of the reader thread
    buf,          \* the reader thread's buffer, as far as it was ever filled
    n,            \* the count the last read returned
    rwlock,       \* the RwLock around the parser: its writer and its readers
    parser,       \* the vt100 parser: grid dimensions and the bytes processed since it was created
    size,         \* Terminal.size
    writer,       \* the Mutex around the PTY writer: its holder
    ptyIn,        \* the bytes the PTY writer took in the UI operation under way, or the last one
    channel,      \* the mpsc channel from event_tx to event_rx
    uiPc,         \* position of the UI thread
    uiOp,         \* the operation the UI thread is in
    uiArg,        \* its arguments, as a list
    events,       \* the Vec poll_events is filling
    result,       \* what the last input() returned, until the next operation starts
    reads,        \* history: the chunks the read calls returned, in order
    processed,    \* history: the chunks handed to process(), in order
    sent,         \* history: the events the pump sent, in order
    polled,       \* history: the vectors poll_events returned, concatenated
    endedAtCall,  \* history: the pump had sent Exit or Error when the current UI operation began
    pty_size,     \* the window size of the PTY, as the child sees it
    idx,          \* the index given to from_256_color
    color,        \* what from_256_color returned for it
    tree,         \* a FileNode of the file tree
    visible_items, \* the Vec<VisibleItem> flatten_node fills
    callers,      \* threads that call input() on one Terminal: where each is, and with what
    stream,       \* the bytes the PTY writer took from them, in order, each with its call
    view,         \* the TerminalView: terminal, has_exited, exit_code
    spawned,      \* the last call of Terminal::spawn: its command, what failed, what it returned
    dropped,      \* the Terminal was dropped
    orphan,       \* the reader thread of a session the view replaced while it ran
    partial,      \* how many bytes of its chunk the process() call under way has taken
    frame,        \* what the reads of the frame being drawn saw, in order
    loopPc,       \* position of run_app in its loop
    event_rx,     \* how many events wait in the channel of the TUI
    batch,        \* events.len(): how many events the iteration under way has collected
    handled,      \* how many of them it has handled
    history_buffer, \* the raw history of the TUI: the bytes the reader thread appended
    hreaders,     \* the threads that hold a read guard of the history buffer
    dumped,       \* the bytes the last DumpHistory copied into the editor
    app,          \* the App of the TUI: its overlays, its active panel, should_quit
    keyed,        \* the last key press: the App it met, the handler that took it, the bytes written to the PTY
    editor        \* the EditorState: lines, cursor_row, cursor_col, scroll_offset; panicked once an operation has

vars == <<logging, ptyOut, childOpen, produced, pumpPc, buf, n, rwlock, parser, size,
          writer, ptyIn, channel, uiPc, uiOp, uiArg, events, result,
          reads, processed, sent, polled, endedAtCall, pty_size, idx, color,
          tree, visible_items, callers, stream, view, spawned, dropped, orphan,
          partial, frame, loopPc, event_rx, batch, handled, history_buffer, hreaders,
          dumped, app, keyed, editor>>

\* What no operation of a session changes.
treeVars == <<tree, visible_items>>
inputVars == <<callers, stream>>
viewVars == <<view, spawned, dropped>>

otherVars == <<orphan, partial, frame>>

\* The event loop of the TUI.
historyVars == <<history_buffer, hreaders, dumped>>

keyVars == <<app, keyed>>

tuiVars == <<loopPc, event_rx, batch, handled, historyVars, keyVars, editor>>

constVars == <<logging, pty_size, idx, color, treeVars, inputVars, viewVars, otherVars,
               tuiVars>>

pumpVars == <<pumpPc, buf, n>>
envVars == <<ptyOut, childOpen, produced>>
uiVars == <<uiPc, uiOp, uiArg, events, result, endedAtCall>>
histVars == <<reads, processed, sent, polled>>

\* ----------------------------------------------------------------- helpers
Min(a, b) == IF a < b THEN a ELSE b

\* A log grows in a logged run only.
Log(log, x) == IF logging THEN Append(log, x) ELSE log

LogAll(log, xs) == IF logging THEN log \o xs ELSE log

RECURSIVE Flatten(_)
Flatten(chunks) == IF chunks = <<>> THEN <<>> ELSE Head(chunks) \o Flatten(Tail(chunks))

\* The pump has left its loop: it has sent Exit or Error.
Ended == pumpPc = "done"

\* ------------------------------------------------------------ the colours
\* u8
U8 == 256

\* An u8 operation whose exact result is x overflows: a panic in a debug
\* build, the wrapped value in a release build.
Overflow(x) == x < 0 \/ x >= U8

Wrap(x) == x % U8

\* TerminalColor::new(r, g, b)
TerminalColor(r, g, b) == [r |-> r, g |-> g, b |-> b]

\* The sixteen ANSI colours, index 0 first.
Ansi16 ==
    << TerminalColor(0, 0, 0),       TerminalColor(128, 0, 0),
       TerminalColor(0, 128, 0),     TerminalColor(128, 128, 0),
       TerminalColor(0, 0, 128),     TerminalColor(128, 0, 128),
       TerminalColor(0, 128, 128),   TerminalColor(192, 192, 192),
       TerminalColor(128, 128, 128), TerminalColor(255, 0, 0),
       TerminalColor(0, 255, 0),     TerminalColor(255, 255, 0),
       TerminalColor(0, 0, 255),     TerminalColor(255, 0, 255),
       TerminalColor(0, 255, 255),   TerminalColor(255, 255, 255) >>

\* if x > 0 { x * 40 + 55 } else { 0 }, in u8
CubeLevel(x) == IF x > 0 THEN Wrap(Wrap(x * 40) + 55) ELSE 0

\* (idx - 232) * 10 + 8, in u8
GrayLevel(k) == Wrap(Wrap(k * 10) + 8)

\* Mutant: blue and red change places.
from_256_color_bgr(i) ==
    IF i < 16 THEN Ansi16[i + 1]
    ELSE IF i < 232
         THEN LET j == Wrap(i - 16) IN
              TerminalColor(CubeLevel(j % 6), CubeLevel((j \div 6) % 6), CubeLevel((j \div 36) % 6))
         ELSE LET gray == GrayLevel(Wrap(i - 232)) IN TerminalColor(gray, gray, gray)

\* TerminalColor::from_256_color(idx)
from_256_color(i) ==
    IF i < 16 THEN Ansi16[i + 1]
    ELSE IF i < 232
         THEN LET j == Wrap(i - 16)
                  r == (j \div 36) % 6
                  g == (j \div 6) % 6
                  b == j % 6
              IN  TerminalColor(CubeLevel(r), CubeLevel(g), CubeLevel(b))
         ELSE LET gray == GrayLevel(Wrap(i - 232)) IN TerminalColor(gray, gray, gray)

\* The exact values of the u8 operations from_256_color(i) evaluates.
U8Results(i) ==
    IF i < 16 THEN {}
    ELSE IF i < 232
         THEN LET j == i - 16 IN
              {j} \cup UNION {IF x > 0 THEN {x * 40, x * 40 + 55} ELSE {} :
                                 x \in {(j \div 36) % 6, (j \div 6) % 6, j % 6}}
         ELSE {i - 232, (i - 232) * 10, (i - 232) * 10 + 8}

\* ------------------------------------------------------------ the parser
\* vt100::Parser::new(rows, cols, scrollback): an empty screen.
NewParser(rows, cols) == [rows |-> rows, cols |-> cols, fed |-> <<>>]

\* Mutant: the chunk is not applied to the screen.
process_skipped(p, bytes) == p

\* Parser::process(bytes): the screen is a function of the bytes processed, in order.
process(p, bytes) == [p EXCEPT !.fed = LogAll(@, bytes)]

\* Mutant: the resize builds a new parser, as the theme toggle does.
set_size_new_parser(p, rows, cols) == NewParser(rows, cols)

\* Mutant: set_size(size.cols, size.rows).
set_size_swapped(p, rows, cols) == [p EXCEPT !.rows = cols, !.cols = rows]

\* Parser::set_size(rows, cols): the dimensions change, what was processed stays.
set_size(p, rows, cols) == [p EXCEPT !.rows = rows, !.cols = cols]

\* screen.cell(row, col), rows and columns counted from 0: Some for a
\* position of the grid, None outside of it.
cell(p, row, col) == IF row < p.rows /\ col < p.cols THEN "Some" ELSE "None"

\* vt100::Color
Default == [kind |-> "Default"]

Idx(i) == [kind |-> "Idx", idx |-> i]

Rgb(r, g, b) == [kind |-> "Rgb", r |-> r, g |-> g, b |-> b]

\* TerminalColor::black(), TerminalColor::white()
black == TerminalColor(0, 0, 0)

white == TerminalColor(211, 215, 207)

\* TerminalColor::from_vt100_color(color): foreground and background alike.
from_vt100_color(vc) ==
    IF vc.kind = "Default" THEN white
    ELSE IF vc.kind = "Idx" THEN from_256_color(vc.idx)
    ELSE TerminalColor(vc.r, vc.g, vc.b)

\* impl Default for TerminalCell
TerminalCellDefault ==
    [c |-> " ", fg |-> white, bg |-> black,
     bold |-> FALSE, italic |-> FALSE, underline |-> FALSE, inverse |-> FALSE]

\* The vt100 cell at a position of the grid.  The model does not compute the
\* grid: the cell stands for the bytes processed so far, so it is blank, with
\* no contents, while nothing was processed; the bytes of the model are plain
\* letters, which change no colour and no attribute.
ScreenCell(p, row, col) ==
    [contents |-> p.fed, fgcolor |-> Default, bgcolor |-> Default,
     bold |-> FALSE, italic |-> FALSE, underline |-> FALSE, inverse |-> FALSE]

\* cell.contents().chars().next().unwrap_or(' ')
FirstChar(contents) == IF contents = <<>> THEN " " ELSE Head(contents)

\* The cell pushed for a position: the screen's cell converted, or
\* TerminalCell::default() where the screen has none.
TerminalCell(p, row, col) ==
    IF cell(p, row, col) = "Some"
    THEN LET vc == ScreenCell(p, row, col) IN
         [c |-> FirstChar(vc.contents),
          fg |-> from_vt100_color(vc.fgcolor), bg |-> from_vt100_color(vc.bgcolor),
          bold |-> vc.bold, italic |-> vc.italic, underline |-> vc.underline,
          inverse |-> vc.inverse]
    ELSE TerminalCellDefault

\* Mutant: the two loops change places.
cells_transposed(sz, p) ==
    [col_idx \in 1..sz.cols |-> [row_idx \in 1..sz.rows |-> TerminalCell(p, row_idx - 1, col_idx - 1)]]

\* cells(): one row per row_idx in 0..self.size.rows, one cell per col_idx
\* in 0..self.size.cols, whatever screen.cell returns.
cells(sz, p) ==
    [row_idx \in 1..sz.rows |-> [col_idx \in 1..sz.cols |-> TerminalCell(p, row_idx - 1, col_idx - 1)]]

\* Mutant: the else arm is missing, nothing is pushed where the screen has no cell.
row_without_else(sz, p, row_idx) ==
    [col_idx \in 1..(IF row_idx < p.rows THEN Min(sz.cols, p.cols) ELSE 0) |->
        TerminalCell(p, row_idx, col_idx - 1)]

\* row(row_idx): one cell per col_idx in 0..self.size.cols, whatever row_idx is.
row(sz, p, row_idx) == [col_idx \in 1..sz.cols |-> TerminalCell(p, row_idx, col_idx - 1)]

\* ------------------------------------------------------------- the locks
\* RwLock::write() returns when there is no writer and no reader.
CanWrite == rwlock.writer = "none" /\ rwlock.readers = {}

\* Mutant: a read guard is handed out while the writer holds the lock.
CanReadAlways == TRUE

\* RwLock::read() returns when there is no writer.
CanRead == rwlock.writer = "none"

LockWrite(l, who) == [l EXCEPT !.writer = who]

\* Mutant: the write guard is kept (held in a binding that outlives the block).
UnlockWriteKept(l) == l

\* The write guard is dropped.
UnlockWrite(l) == [l EXCEPT !.writer = "none"]

LockRead(l, who) == [l EXCEPT !.readers = @ \cup {who}]

\* Mutant: the read guard is leaked.
UnlockReadLeaked(l, who) == l

\* The read guard is dropped.
UnlockRead(l, who) == [l EXCEPT !.readers = @ \ {who}]

\* ------------------------------------------------------------ the channel
\* Sender::send on an unbounded channel: never blocks.  Once the receiver
\* is dropped it returns Err and the event goes nowhere; the pump's let _ =
\* discards the Err.
send(q, e) == IF dropped THEN q ELSE Append(q, e)

\* An endless run keeps the first MaxQueue events of the channel only: the
\* pump goes on sending whether or not the UI polls.
Held(q) == IF logging \/ Len(q) <= MaxQueue THEN q ELSE SubSeq(q, 1, MaxQueue)

\* Mutant: the oldest event is returned but left in the channel.
try_recv_peek(q) ==
    IF q = <<>>
    THEN [returns |-> TRUE, ok |-> FALSE, event |-> Output, rest |-> q]
    ELSE [returns |-> TRUE, ok |-> TRUE, event |-> Head(q), rest |-> q]

\* Mutant: Receiver::recv, which waits for an event.
recv_blocking(q) ==
    IF q = <<>>
    THEN [returns |-> FALSE, ok |-> FALSE, event |-> Output, rest |-> q]
    ELSE [returns |-> TRUE, ok |-> TRUE, event |-> Head(q), rest |-> Tail(q)]

\* Receiver::try_recv: returns at once, with the oldest event if there is one.
try_recv(q) ==
    IF q = <<>>
    THEN [returns |-> TRUE, ok |-> FALSE, event |-> Output, rest |-> q]
    ELSE [returns |-> TRUE, ok |-> TRUE, event |-> Head(q), rest |-> Tail(q)]

\* ------------------------------------------------------------------- Init
\* No colour was asked for.
NoColor == <<>>

InitCommon ==
    /\ ptyOut = <<>>
    /\ childOpen = TRUE
    /\ produced = 0
    /\ pumpPc = "read"
    /\ buf = <<>>
    /\ n = 0
    /\ rwlock = [writer |-> "none", readers |-> {}]
    /\ size = TerminalSize(24, 80)
    /\ parser = NewParser(24, 80)
    /\ writer = "none"
    /\ ptyIn = <<>>
    /\ channel = <<>>
    /\ uiPc = "idle"
    /\ uiOp = "none"
    /\ uiArg = <<>>
    /\ events = <<>>
    /\ result = "none"
    /\ reads = <<>>
    /\ processed = <<>>
    /\ sent = <<>>
    /\ polled = <<>>
    /\ endedAtCall = FALSE
    /\ pty_size = TerminalSize(24, 80)

\* No colour is being resolved.
InitColor == idx = 0 /\ color = NoColor

\* No file tree is being listed.
NoTree == <<>>

InitNoTree == tree = NoTree /\ visible_items = <<>>

\* Two more threads that may call input().
Callers == {"a", "b"}

\* None of them has called yet.
InitNoCallers ==
    /\ callers = [c \in Callers |-> [pc |-> "idle", data |-> <<>>, at |-> 0, call |-> 0]]
    /\ stream = <<>>

\* Option::None
None == <<"None">>

\* Some(x)
Some(x) == <<"Some", x>>

\* Result::Ok(..), Result::Err(message), and a panic in place of a return.
Ok == <<"Ok">>

Err(msg) == <<"Err", msg>>

panic == <<"panic">>

\* No call of spawn was recorded.
NoAttempt == [command |-> None, failing |-> "none", returned |-> <<"none">>]

\* The Terminal a view holds.
Session == Some("Terminal")

\* The view of a session that runs: start() has returned Ok.
InitStarted ==
    /\ view = [terminal |-> Session, has_exited |-> FALSE, exit_code |-> None]
    /\ spawned = NoAttempt
    /\ dropped = FALSE

\* No session was replaced.
InitOther == orphan = "none" /\ partial = 0 /\ frame = <<>>

\* run_app is about to draw its first frame; nothing was sent to it yet.
InitLoop == loopPc = "draw" /\ event_rx = 0 /\ batch = 0 /\ handled = 0

\* let history = Arc::new(RwLock::new(Vec::new()));
InitHistory == history_buffer = <<>> /\ hreaders = {} /\ dumped = <<>>

\* The key presses of the TUI that are told apart.
TuiKeys == {"Ctrl+c", "Ctrl+d", "Ctrl+z", "Ctrl+q", "Ctrl+s", "Ctrl+p", "Ctrl+v", "Ctrl+r",
            "Tab", "Esc", "Enter", "a"}

ActivePanel == {"FileTree", "Editor", "Chat", "Terminal"}

NoKey == [code |-> "none", met |-> <<>>, by |-> "none", bytes |-> <<>>]

\* App::new: active_panel: ActivePanel::FileTree, no overlay open.
InitKeys ==
    /\ app = [show_settings |-> FALSE, is_searching |-> FALSE, menu_open |-> FALSE,
              active_panel |-> "FileTree", should_quit |-> FALSE]
    /\ keyed = NoKey

\* EditorState::new
InitEditor ==
    editor = [lines |-> << <<>> >>, cursor_row |-> 0, cursor_col |-> 0, scroll_offset |-> 0,
              panicked |-> FALSE]

InitTui == InitLoop /\ InitHistory /\ InitKeys /\ InitEditor

\* What a session leaves alone.
InitRest == InitNoTree /\ InitNoCallers /\ InitStarted /\ InitOther /\ InitTui

\* A session right after Terminal::spawn returned Ok.
Init == logging = TRUE /\ InitCommon /\ InitColor /\ InitRest

\* A session whose child may write without end: contents are not kept.
InitStream == logging = FALSE /\ InitCommon /\ InitColor /\ InitRest

\* Either of the two.
InitAny == logging \in BOOLEAN /\ InitCommon /\ InitColor /\ InitRest

\* ------------------------------------------------------------ environment
\* The child writes one byte to the slave side; the kernel holds at most PtyCap.
ChildWrite ==
    /\ childOpen
    /\ Len(ptyOut) < PtyCap
    /\ logging => produced < MaxBytes
    /\ ptyOut' = Append(ptyOut, IF logging THEN ByteAt(produced + 1) ELSE ByteAt(1))
    /\ produced' = IF logging THEN produced + 1 ELSE produced
    /\ UNCHANGED <<constVars, childOpen, pumpVars, rwlock, parser, size, writer, ptyIn,
                   channel, uiVars, histVars>>

\* The child exits: the slave side is closed.
ChildExit ==
    /\ childOpen
    /\ childOpen' = FALSE
    /\ UNCHANGED <<constVars, ptyOut, produced, pumpVars, rwlock, parser, size, writer,
                   ptyIn, channel, uiVars, histVars>>

\* --------------------------------------------------------- the reader thread
\* reader.read(&mut buf) fills the front of the buffer with k bytes.
Fill(b, chunk) == chunk \o SubSeq(b, Len(chunk) + 1, Len(b))

\* Mutant: &buf, the whole buffer with what earlier reads left in it.
ChunkWholeBuf(b, k) == IF Len(b) > k THEN b ELSE SubSeq(b, 1, k)

\* &buf[..n]
Chunk(b, k) == SubSeq(b, 1, k)

\* Ok(n), n > 0: the read returns some of the bytes that are there.
PumpReadData ==
    /\ pumpPc = "read"
    /\ ptyOut # <<>>
    /\ \E k \in 1..Min(BufSize, Len(ptyOut)) :
          /\ buf' = Fill(buf, SubSeq(ptyOut, 1, k))
          /\ n' = k
          /\ ptyOut' = SubSeq(ptyOut, k + 1, Len(ptyOut))
          /\ reads' = Log(reads, SubSeq(ptyOut, 1, k))
    /\ pumpPc' = "lock"
    /\ UNCHANGED <<constVars, childOpen, produced, rwlock, parser, size, writer, ptyIn,
                   channel, uiVars, processed, sent, polled>>

\* Ok(0): end of file, once the child is gone and everything was read.
PumpReadEof ==
    /\ pumpPc = "read"
    /\ ptyOut = <<>>
    /\ ~childOpen
    /\ n' = 0
    /\ pumpPc' = "send_exit"
    /\ UNCHANGED <<constVars, envVars, buf, rwlock, parser, size, writer, ptyIn,
                   channel, uiVars, histVars>>

\* Err(e): the read fails (EIO after the hangup, or any other I/O error).
PumpReadErr ==
    /\ pumpPc = "read"
    /\ pumpPc' = "send_error"
    /\ UNCHANGED <<constVars, envVars, buf, n, rwlock, parser, size, writer, ptyIn,
                   channel, uiVars, histVars>>

\* reader_parser.write(): the pump waits here for the write lock.
PumpLock ==
    /\ pumpPc = "lock"
    /\ CanWrite
    /\ rwlock' = LockWrite(rwlock, "pump")
    /\ pumpPc' = "process"
    /\ UNCHANGED <<constVars, envVars, buf, n, parser, size, writer, ptyIn,
                   channel, uiVars, histVars>>

\* .process(&buf[..n]), and the guard is dropped at the end of the block.
PumpProcess ==
    /\ pumpPc = "process"
    /\ parser' = process(parser, Chunk(buf, n))
    /\ processed' = Log(processed, Chunk(buf, n))
    /\ rwlock' = UnlockWrite(rwlock)
    /\ pumpPc' = "send_output"
    /\ UNCHANGED <<constVars, envVars, buf, n, size, writer, ptyIn,
                   channel, uiVars, reads, sent, polled>>

\* Where the loop goes after each arm.
AfterOutput == "read"

\* Mutant: the break of the Ok(0) arm is missing.
AfterExitNoBreak == "read"

AfterExit == "done"

\* Mutant: the break of the Err arm is missing.
AfterErrorNoBreak == "read"

AfterError == "done"

\* let _ = event_tx.send(TerminalEvent::Output); thread::yield_now();
PumpSendOutput ==
    /\ pumpPc = "send_output"
    /\ channel' = Held(send(channel, Output))
    /\ sent' = Log(sent, Output)
    /\ pumpPc' = AfterOutput
    /\ UNCHANGED <<constVars, envVars, buf, n, rwlock, parser, size, writer, ptyIn,
                   uiVars, reads, processed, polled>>

\* let _ = event_tx.send(TerminalEvent::Exit(0)); break;
PumpSendExit ==
    /\ pumpPc = "send_exit"
    /\ channel' = Held(send(channel, Exit(0)))
    /\ sent' = Log(sent, Exit(0))
    /\ pumpPc' = AfterExit
    /\ UNCHANGED <<constVars, envVars, buf, n, rwlock, parser, size, writer, ptyIn,
                   uiVars, reads, processed, polled>>

\* let _ = event_tx.send(TerminalEvent::Error(format!("Read error: {}", e))); break;
PumpSendError ==
    /\ pumpPc = "send_error"
    /\ channel' = Held(send(channel, Error("Read error")))
    /\ sent' = Log(sent, Error("Read error"))
    /\ pumpPc' = AfterError
    /\ UNCHANGED <<constVars, envVars, buf, n, rwlock, parser, size, writer, ptyIn,
                   uiVars, reads, processed, polled>>

Pump ==
    \/ PumpReadData
    \/ PumpReadEof
    \/ PumpReadErr
    \/ PumpLock
    \/ PumpProcess
    \/ PumpSendOutput
    \/ PumpSendExit
    \/ PumpSendError

Env == ChildWrite \/ ChildExit

\* ------------------------------------------------------------- the UI thread
\* cells(), row(), cursor_position(), cursor_visible(), scrollback_len() are called.
UiQueryStart(op) ==
    /\ uiPc = "idle"
    /\ uiPc' = "q_lock"
    /\ uiOp' = op
    /\ uiArg' \in QueryArgs(op)
    /\ endedAtCall' = Ended
    /\ result' = "none"
    /\ ptyIn' = <<>>
    /\ UNCHANGED <<constVars, envVars, pumpVars, rwlock, parser, size, writer,
                   channel, events, histVars>>

\* self.parser.read(): the UI waits here for the read lock.
UiQueryLock ==
    /\ uiPc = "q_lock"
    /\ CanRead
    /\ rwlock' = LockRead(rwlock, "ui")
    /\ uiPc' = "q_read"
    /\ UNCHANGED <<constVars, envVars, pumpVars, parser, size, writer, ptyIn,
                   channel, uiOp, uiArg, events, result, endedAtCall, histVars>>

\* The copy is made under the read lock; the guard is dropped on return.
UiQueryRead ==
    /\ uiPc = "q_read"
    /\ rwlock' = UnlockRead(rwlock, "ui")
    /\ uiPc' = "idle"
    /\ uiOp' = "none"
    /\ uiArg' = <<>>
    /\ endedAtCall' = FALSE
    /\ UNCHANGED <<constVars, envVars, pumpVars, parser, size, writer, ptyIn,
                   channel, events, result, histVars>>

\* resize(size): self.size = size; then the write lock is asked for.
UiResizeStart(sz) ==
    /\ uiPc = "idle"
    /\ size' = sz
    /\ uiPc' = "rs_lock"
    /\ uiOp' = "resize"
    /\ uiArg' = <<sz.rows, sz.cols>>
    /\ endedAtCall' = Ended
    /\ result' = "none"
    /\ ptyIn' = <<>>
    /\ UNCHANGED <<constVars, envVars, pumpVars, rwlock, parser, writer,
                   channel, events, histVars>>

\* self.parser.write(): the UI waits here for the write lock.
UiResizeLock ==
    /\ uiPc = "rs_lock"
    /\ CanWrite
    /\ rwlock' = LockWrite(rwlock, "ui")
    /\ uiPc' = "rs_set"
    /\ UNCHANGED <<constVars, envVars, pumpVars, parser, size, writer, ptyIn,
                   channel, uiOp, uiArg, events, result, endedAtCall, histVars>>

\* .set_size(size.rows, size.cols), and the guard is dropped.
UiResizeSet ==
    /\ uiPc = "rs_set"
    /\ parser' = set_size(parser, uiArg[1], uiArg[2])
    /\ rwlock' = UnlockWrite(rwlock)
    /\ uiPc' = "idle"
    /\ uiOp' = "none"
    /\ uiArg' = <<>>
    /\ endedAtCall' = FALSE
    /\ UNCHANGED <<constVars, envVars, pumpVars, size, writer, ptyIn,
                   channel, events, result, histVars>>

\* input(data), also through input_str, send_interrupt, send_eof, send_suspend.
UiInputStart(data) ==
    /\ uiPc = "idle"
    /\ uiPc' = "in_lock"
    /\ uiOp' = "input"
    /\ uiArg' = data
    /\ endedAtCall' = Ended
    /\ result' = "none"
    /\ ptyIn' = <<>>
    /\ UNCHANGED <<constVars, envVars, pumpVars, rwlock, parser, size, writer,
                   channel, events, histVars>>

\* send_interrupt(), send_eof(), send_suspend()
Wrappers == {"send_interrupt", "send_eof", "send_suspend"}

\* Mutant: send_suspend sends the byte of send_eof.
ControlByteCopied(w) == IF w = "send_interrupt" THEN CtrlC ELSE CtrlD

\* The byte each of them passes to input().
ControlByte(w) ==
    CASE w = "send_interrupt" -> CtrlC
      [] w = "send_eof" -> CtrlD
      [] w = "send_suspend" -> CtrlZ

\* self.input(&[0x03]), self.input(&[0x04]), self.input(&[0x1A])
UiSendStart(w) ==
    /\ uiPc = "idle"
    /\ uiPc' = "in_lock"
    /\ uiOp' = w
    /\ uiArg' = <<ControlByte(w)>>
    /\ endedAtCall' = Ended
    /\ result' = "none"
    /\ ptyIn' = <<>>
    /\ UNCHANGED <<constVars, envVars, pumpVars, rwlock, parser, size, writer,
                   channel, events, histVars>>

\* self.writer.lock()
UiInputLock ==
    /\ uiPc = "in_lock"
    /\ writer = "none"
    /\ writer' = "ui"
    /\ uiPc' = "in_write"
    /\ UNCHANGED <<constVars, envVars, pumpVars, rwlock, parser, size, ptyIn,
                   channel, uiOp, uiArg, events, result, endedAtCall, histVars>>

\* What input() can return: the results of write_all and flush, mapped.
InputResults == {"Ok", "Write error", "Flush error"}

\* write_all(data) then flush(); the guard is dropped on return.  A failed
\* write_all has written nothing, a failed flush follows a full write.
UiInputWrite ==
    /\ uiPc = "in_write"
    /\ \E r \in InputResults :
          /\ result' = r
          /\ ptyIn' = IF r = "Write error" THEN <<>> ELSE uiArg
    /\ writer' = "none"
    /\ uiPc' = "idle"
    /\ uiOp' = "none"
    /\ uiArg' = <<>>
    /\ endedAtCall' = FALSE
    /\ UNCHANGED <<constVars, envVars, pumpVars, rwlock, parser, size,
                   channel, events, reads, processed, sent, polled>>

\* poll_events(): let mut events = Vec::new();
UiPollStart ==
    /\ uiPc = "idle"
    /\ uiPc' = "poll"
    /\ uiOp' = "poll_events"
    /\ uiArg' = <<>>
    /\ events' = <<>>
    /\ endedAtCall' = Ended
    /\ result' = "none"
    /\ ptyIn' = <<>>
    /\ UNCHANGED <<constVars, envVars, pumpVars, rwlock, parser, size, writer,
                   channel, histVars>>

\* One turn of  while let Ok(event) = self.event_rx.try_recv() { events.push(event) }
\* and, when try_recv finds nothing, the return of events.
UiPollRecv ==
    /\ uiPc = "poll"
    /\ LET r == try_recv(channel) IN
          /\ r.returns
          /\ channel' = r.rest
          /\ IF r.ok
             THEN /\ events' = Log(events, r.event)
                  /\ UNCHANGED <<uiPc, uiOp, endedAtCall, polled>>
             ELSE /\ uiPc' = "idle"
                  /\ uiOp' = "none"
                  /\ endedAtCall' = FALSE
                  /\ polled' = polled \o events
                  /\ UNCHANGED events
    /\ UNCHANGED <<constVars, envVars, pumpVars, rwlock, parser, size, writer, ptyIn,
                   uiArg, result, reads, processed, sent>>

\* toggle_theme() of the TUI: the theme is switched and saved, then the parser is reset.
UiToggleStart ==
    /\ uiPc = "idle"
    /\ uiPc' = "tg_lock"
    /\ uiOp' = "toggle_theme"
    /\ uiArg' = <<>>
    /\ endedAtCall' = Ended
    /\ result' = "none"
    /\ ptyIn' = <<>>
    /\ UNCHANGED <<constVars, envVars, pumpVars, rwlock, parser, size, writer,
                   channel, events, histVars>>

\* self.terminal_screen.write()
UiToggleLock ==
    /\ uiPc = "tg_lock"
    /\ CanWrite
    /\ rwlock' = LockWrite(rwlock, "ui")
    /\ uiPc' = "tg_reset"
    /\ UNCHANGED <<constVars, envVars, pumpVars, parser, size, writer, ptyIn,
                   channel, uiOp, uiArg, events, result, endedAtCall, histVars>>

\* *parser = Parser::new(rows, cols, 0) with the rows and cols it had.
UiToggleReset ==
    /\ uiPc = "tg_reset"
    /\ parser' = NewParser(parser.rows, parser.cols)
    /\ rwlock' = UnlockWrite(rwlock)
    /\ uiPc' = "tg_write"
    /\ UNCHANGED <<constVars, envVars, pumpVars, size, writer, ptyIn,
                   channel, uiOp, uiArg, events, result, endedAtCall, histVars>>

\* let _ = self.pty_writer.write_all(reset_seq); let _ = self.pty_writer.flush();
UiToggleWrite ==
    /\ uiPc = "tg_write"
    /\ \E ok \in BOOLEAN : ptyIn' = IF ok THEN reset_seq ELSE <<>>
    /\ uiPc' = "idle"
    /\ uiOp' = "none"
    /\ uiArg' = <<>>
    /\ endedAtCall' = FALSE
    /\ UNCHANGED <<constVars, envVars, pumpVars, rwlock, parser, size, writer,
                   channel, events, result, reads, processed, sent, polled>>

Ui ==
    \/ \E op \in QueryOps : UiQueryStart(op)
    \/ UiQueryLock
    \/ UiQueryRead
    \/ \E sz \in Sizes : UiResizeStart(sz)
    \/ UiResizeLock
    \/ UiResizeSet
    \/ \E data \in InputData : UiInputStart(data)
    \/ UiInputLock
    \/ UiInputWrite
    \/ UiPollStart
    \/ UiPollRecv
    \/ UiToggleStart
    \/ UiToggleLock
    \/ UiToggleReset
    \/ UiToggleWrite

Next == Env \/ Pump \/ Ui

\* A session whose child writes at most MaxBytes bytes; everything is logged.
Spec == Init /\ [][Next]_vars

\* The scheduler runs each thread that can take a step (weak fairness on the
\* steps that wait for nothing); parking_lot's locks are eventually fair, so
\* a thread that asks for a lock that is free again and again does get it
\* (strong fairness).  Nothing is assumed of the child, of the PTY read, or
\* of which operations the UI starts.
Fairness ==
    /\ WF_vars(PumpProcess)
    /\ WF_vars(PumpSendOutput \/ PumpSendExit \/ PumpSendError)
    /\ SF_vars(PumpLock)
    /\ SF_vars(UiQueryLock \/ UiResizeLock \/ UiToggleLock)
    /\ WF_vars(UiInputLock)
    /\ WF_vars(UiQueryRead \/ UiResizeSet \/ UiInputWrite \/ UiToggleReset \/ UiToggleWrite)
    /\ WF_vars(UiPollRecv)

\* A session whose child may write without end, under a fair scheduler.
StreamSpec == InitStream /\ [][Next]_vars /\ Fairness

\* Either kind of session, under a fair scheduler.
FairSpec == InitAny /\ [][Next]_vars /\ Fairness

\* The operations of a Terminal of src/shared/terminal: the theme toggle is
\* the TUI's, on the TUI's own parser.
UiTerminal ==
    \/ \E op \in QueryOps : UiQueryStart(op)
    \/ UiQueryLock
    \/ UiQueryRead
    \/ \E sz \in Sizes : UiResizeStart(sz)
    \/ UiResizeLock
    \/ UiResizeSet
    \/ \E data \in InputData : UiInputStart(data)
    \/ \E w \in Wrappers : UiSendStart(w)
    \/ UiInputLock
    \/ UiInputWrite
    \/ UiPollStart
    \/ UiPollRecv

NextTerminal == Env \/ Pump \/ UiTerminal

\* A Terminal session and nothing else.
TerminalSpec == Init /\ [][NextTerminal]_vars

\* ui() of the TUI draws a frame: let screen = app.terminal_screen.read().unwrap();
UiDrawStart ==
    /\ uiPc = "idle"
    /\ uiPc' = "dr_lock"
    /\ uiOp' = "draw"
    /\ uiArg' = <<>>
    /\ endedAtCall' = Ended
    /\ result' = "none"
    /\ ptyIn' = <<>>
    /\ UNCHANGED <<constVars, envVars, pumpVars, rwlock, parser, size, writer,
                   channel, events, histVars>>

\* The read lock is granted; the guard is the local screen.
UiDrawLock ==
    /\ uiPc = "dr_lock"
    /\ CanRead
    /\ rwlock' = LockRead(rwlock, "ui")
    /\ uiPc' = "dr_terminal"
    /\ UNCHANGED <<constVars, envVars, pumpVars, parser, size, writer, ptyIn,
                   channel, uiOp, uiArg, events, result, endedAtCall, histVars>>

\* f.render_widget(pseudo_term, layout.terminal) and the recolouring of its
\* area: the terminal is drawn from screen.screen().
UiDrawTerminal ==
    /\ uiPc = "dr_terminal"
    /\ uiPc' = "dr_rest"
    /\ UNCHANGED <<constVars, envVars, pumpVars, rwlock, parser, size, writer, ptyIn,
                   channel, uiOp, uiArg, events, result, endedAtCall, histVars>>

\* The scrollbar, the chat and the rest of the frame are drawn; screen is
\* dropped where ui() returns.
UiDrawRest ==
    /\ uiPc = "dr_rest"
    /\ rwlock' = UnlockRead(rwlock, "ui")
    /\ uiPc' = "idle"
    /\ uiOp' = "none"
    /\ uiArg' = <<>>
    /\ endedAtCall' = FALSE
    /\ UNCHANGED <<constVars, envVars, pumpVars, parser, size, writer, ptyIn,
                   channel, events, result, histVars>>

UiDraw == UiDrawStart \/ UiDrawLock \/ UiDrawTerminal \/ UiDrawRest

NextTui == Next \/ UiDraw

\* The session with the frames the TUI draws of it.
TuiSpec == Init /\ [][NextTui]_vars

\* TerminalSize::new(rows, cols) takes any two u16: sizes with a zero among them.
ZeroSizes == {TerminalSize(0, 80), TerminalSize(24, 0)}

\* The operations of a Terminal, resize() with any TerminalSize.
UiAnySize ==
    \/ UiTerminal
    \/ \E sz \in ZeroSizes : UiResizeStart(sz)

NextAnySize == Env \/ Pump \/ UiAnySize

\* A Terminal session whose caller passes any TerminalSize to resize().
AnySizeSpec == Init /\ [][NextAnySize]_vars

\* ------------------------------------------------------ the colour resolver
\* Any u8 may be asked for.
InitResolve ==
    logging = TRUE /\ InitCommon /\ idx \in 0..(U8 - 1) /\ color = NoColor /\ InitRest

\* A call of from_256_color(idx).
Resolve ==
    /\ color = NoColor
    /\ color' = from_256_color(idx)
    /\ UNCHANGED <<logging, tuiVars, pty_size, otherVars, idx, treeVars, inputVars, viewVars, envVars, pumpVars,
                   rwlock, parser, size, writer, ptyIn, channel, uiVars, histVars>>

NextColor == Resolve

\* from_256_color applied to every index.
ColorSpec == InitResolve /\ [][NextColor]_vars

\* --------------------------------------------------------- the TerminalView
\* What start() and start_command(command) hand to Terminal::spawn.  A
\* command is the sequence of its words and of the blanks between them.
Commands == {None, Some(<<"sh">>), Some(<<"ls", " ", "-l">>), Some(<<" ">>), Some(<<>>)}

\* The steps of spawn that may fail, in the order spawn takes them; "none":
\* none of them fails.
SpawnSteps == <<"openpty", "spawn_command", "take_writer", "try_clone_reader">>

Failing == {SpawnSteps[i] : i \in 1..Len(SpawnSteps)} \cup {"none"}

\* command.split_whitespace().collect()
split_whitespace(command) == SelectSeq(command, LAMBDA w : w # " ")

\* Mutant: parts[0] is taken without the test of parts.is_empty().
spawn_unchecked(command, failing) ==
    IF failing = "openpty"
    THEN [returned |-> Err("Failed to open PTY"), child |-> FALSE, thread |-> FALSE]
    ELSE IF command # None /\ split_whitespace(command[2]) = <<>>
    THEN [returned |-> panic, child |-> FALSE, thread |-> FALSE]
    ELSE IF failing = "spawn_command"
    THEN [returned |-> Err("Failed to spawn command"), child |-> FALSE, thread |-> FALSE]
    ELSE IF failing = "take_writer"
    THEN [returned |-> Err("Failed to get writer"), child |-> TRUE, thread |-> FALSE]
    ELSE IF failing = "try_clone_reader"
    THEN [returned |-> Err("Failed to clone reader"), child |-> TRUE, thread |-> FALSE]
    ELSE [returned |-> Ok, child |-> TRUE, thread |-> TRUE]

\* Terminal::spawn(command, size) where the step failing, if any, fails:
\* what it returns, whether the child was spawned, whether the reader thread
\* was.  Every step that can fail returns through map_err(..)? or Err(..);
\* thread::spawn comes after them all.
spawn(command, failing) ==
    IF failing = "openpty"
    THEN [returned |-> Err("Failed to open PTY"), child |-> FALSE, thread |-> FALSE]
    ELSE IF command # None /\ split_whitespace(command[2]) = <<>>
    THEN [returned |-> Err("Empty command"), child |-> FALSE, thread |-> FALSE]
    ELSE IF failing = "spawn_command"
    THEN [returned |-> Err("Failed to spawn command"), child |-> FALSE, thread |-> FALSE]
    ELSE IF failing = "take_writer"
    THEN [returned |-> Err("Failed to get writer"), child |-> TRUE, thread |-> FALSE]
    ELSE IF failing = "try_clone_reader"
    THEN [returned |-> Err("Failed to clone reader"), child |-> TRUE, thread |-> FALSE]
    ELSE [returned |-> Ok, child |-> TRUE, thread |-> TRUE]

\* TerminalView::is_running
is_running == view.terminal # None /\ ~view.has_exited

\* TerminalView::new(): no session yet, hence no child, no reader thread.
InitUnstarted ==
    /\ logging = TRUE
    /\ ptyOut = <<>>
    /\ childOpen = FALSE
    /\ produced = 0
    /\ pumpPc = "none"
    /\ buf = <<>>
    /\ n = 0
    /\ rwlock = [writer |-> "none", readers |-> {}]
    /\ size = TerminalSize(24, 80)
    /\ parser = NewParser(24, 80)
    /\ writer = "none"
    /\ ptyIn = <<>>
    /\ channel = <<>>
    /\ uiPc = "idle"
    /\ uiOp = "none"
    /\ uiArg = <<>>
    /\ events = <<>>
    /\ result = "none"
    /\ reads = <<>>
    /\ processed = <<>>
    /\ sent = <<>>
    /\ polled = <<>>
    /\ endedAtCall = FALSE
    /\ pty_size = TerminalSize(24, 80)
    /\ InitColor /\ InitNoTree /\ InitNoCallers /\ InitOther /\ InitTui
    /\ view = [terminal |-> None, has_exited |-> FALSE, exit_code |-> None]
    /\ spawned = NoAttempt
    /\ dropped = FALSE

\* Mutant: has_exited and exit_code are cleared before spawn is called.
ViewStartAssignFirst(command, failing) ==
    /\ uiPc = "idle"
    /\ ~is_running
    /\ LET r == spawn(command, failing) IN
          /\ spawned' = [command |-> command, failing |-> failing, returned |-> r.returned]
          /\ IF r.returned = Ok
             THEN /\ view' = [terminal |-> Session, has_exited |-> FALSE, exit_code |-> None]
                  /\ ptyOut' = <<>>
                  /\ childOpen' = r.child
                  /\ produced' = 0
                  /\ pumpPc' = IF r.thread THEN "read" ELSE "none"
                  /\ buf' = <<>>
                  /\ n' = 0
                  /\ rwlock' = [writer |-> "none", readers |-> {}]
                  /\ size' = TerminalSize(24, 80)
                  /\ parser' = NewParser(24, 80)
                  /\ writer' = "none"
                  /\ channel' = <<>>
                  /\ events' = <<>>
                  /\ reads' = <<>>
                  /\ processed' = <<>>
                  /\ sent' = <<>>
                  /\ polled' = <<>>
             ELSE /\ view' = [view EXCEPT !.has_exited = FALSE, !.exit_code = None]
                  /\ UNCHANGED <<envVars, pumpVars, rwlock, size, parser, writer,
                                 channel, events, histVars>>
    /\ uiOp' = "start"
    /\ uiArg' = <<>>
    /\ result' = "none"
    /\ ptyIn' = <<>>
    /\ UNCHANGED <<logging, tuiVars, pty_size, otherVars, idx, color, treeVars, inputVars, dropped,
                   uiPc, endedAtCall>>

\* start() or start_command(command), as the GUI calls them: on Enter or on
\* TerminalStart, when the view is not running.  self.terminal =
\* Some(Terminal::spawn(..)?): an Err returns before anything is assigned;
\* on Ok the view holds a fresh session, and the one it held is dropped.
ViewStart(command, failing) ==
    /\ uiPc = "idle"
    /\ ~is_running
    /\ LET r == spawn(command, failing) IN
          /\ spawned' = [command |-> command, failing |-> failing, returned |-> r.returned]
          /\ IF r.returned = Ok
             THEN /\ view' = [terminal |-> Session, has_exited |-> FALSE, exit_code |-> None]
                  /\ ptyOut' = <<>>
                  /\ childOpen' = r.child
                  /\ produced' = 0
                  /\ pumpPc' = IF r.thread THEN "read" ELSE "none"
                  /\ buf' = <<>>
                  /\ n' = 0
                  /\ rwlock' = [writer |-> "none", readers |-> {}]
                  /\ size' = TerminalSize(24, 80)
                  /\ parser' = NewParser(24, 80)
                  /\ writer' = "none"
                  /\ channel' = <<>>
                  /\ events' = <<>>
                  /\ reads' = <<>>
                  /\ processed' = <<>>
                  /\ sent' = <<>>
                  /\ polled' = <<>>
             ELSE UNCHANGED <<view, envVars, pumpVars, rwlock, size, parser, writer,
                              channel, events, histVars>>
    /\ uiOp' = "start"
    /\ uiArg' = <<>>
    /\ result' = "none"
    /\ ptyIn' = <<>>
    /\ UNCHANGED <<logging, tuiVars, pty_size, otherVars, idx, color, treeVars, inputVars, dropped,
                   uiPc, endedAtCall>>

\* Mutant: the Error arm of tick leaves has_exited alone.
RECURSIVE tick_events_error_ignored(_, _)
tick_events_error_ignored(v, evs) ==
    IF evs = <<>>
    THEN v
    ELSE tick_events_error_ignored(
             IF Head(evs).type = "Exit"
             THEN [v EXCEPT !.has_exited = TRUE, !.exit_code = Some(Head(evs).code)]
             ELSE v,
             Tail(evs))

\* for event in events { match event { .. } } of tick: the view afterwards.
RECURSIVE tick_events(_, _)
tick_events(v, evs) ==
    IF evs = <<>>
    THEN v
    ELSE tick_events(
             CASE Head(evs).type = "Exit" ->
                     [v EXCEPT !.has_exited = TRUE, !.exit_code = Some(Head(evs).code)]
               [] Head(evs).type = "Error" -> [v EXCEPT !.has_exited = TRUE]
               [] OTHER -> v,
             Tail(evs))

\* had_output of tick: an Output was among the events.
had_output(evs) == \E i \in 1..Len(evs) : evs[i].type = "Output"

\* tick() of a view with no terminal returns false.
ViewTickNone ==
    /\ uiPc = "idle"
    /\ view.terminal = None
    /\ uiOp' = "tick"
    /\ result' = "false"
    /\ UNCHANGED <<constVars, envVars, pumpVars, rwlock, parser, size, writer, ptyIn,
                   channel, uiPc, uiArg, events, endedAtCall, histVars>>

\* tick(): let events = term.poll_events();
ViewTickStart ==
    /\ view.terminal # None
    /\ UiPollStart

\* One turn of the loop of poll_events; when try_recv finds nothing, tick
\* goes through the events and returns had_output.
ViewTickRecv ==
    /\ uiPc = "poll"
    /\ LET r == try_recv(channel) IN
          /\ r.returns
          /\ channel' = r.rest
          /\ IF r.ok
             THEN /\ events' = Append(events, r.event)
                  /\ UNCHANGED <<uiPc, uiOp, endedAtCall, polled, view, result>>
             ELSE /\ uiPc' = "idle"
                  /\ uiOp' = "none"
                  /\ endedAtCall' = FALSE
                  /\ polled' = polled \o events
                  /\ view' = tick_events(view, events)
                  /\ result' = IF had_output(events) THEN "true" ELSE "false"
                  /\ UNCHANGED events
    /\ UNCHANGED <<logging, tuiVars, pty_size, otherVars, idx, color, treeVars, inputVars, spawned, dropped,
                   envVars, pumpVars, rwlock, parser, size, writer, ptyIn,
                   uiArg, reads, processed, sent>>

ViewOps ==
    \/ \E command \in Commands, failing \in Failing : ViewStart(command, failing)
    \/ ViewTickNone
    \/ ViewTickStart
    \/ ViewTickRecv

NextView == Env \/ Pump \/ ViewOps

\* A TerminalView from its creation on, with the sessions it starts.
ViewSpec == InitUnstarted /\ [][NextView]_vars

\* ------------------------------------------------ process() byte by byte
\* process(&buf[..n]) takes the bytes of the chunk one after the other; the
\* write guard is dropped when it has taken them all.
PumpProcessByte ==
    /\ pumpPc = "process"
    /\ parser' = process(parser, <<Chunk(buf, n)[partial + 1]>>)
    /\ IF partial + 1 = n
       THEN /\ partial' = 0
            /\ processed' = Log(processed, Chunk(buf, n))
            /\ rwlock' = UnlockWrite(rwlock)
            /\ pumpPc' = "send_output"
       ELSE /\ partial' = partial + 1
            /\ UNCHANGED <<processed, rwlock, pumpPc>>
    /\ UNCHANGED <<logging, tuiVars, pty_size, idx, color, treeVars, inputVars, viewVars, orphan,
                   frame, envVars, buf, n, size, writer, ptyIn, channel, uiVars,
                   reads, sent, polled>>

PumpByBytes ==
    \/ PumpReadData
    \/ PumpReadEof
    \/ PumpReadErr
    \/ PumpLock
    \/ PumpProcessByte
    \/ PumpSendOutput
    \/ PumpSendExit
    \/ PumpSendError

\* cells(), row() and resize() of the UI thread.
UiSnapshots ==
    \/ \E op \in {"cells", "row"} : UiQueryStart(op)
    \/ UiQueryLock
    \/ UiQueryRead
    \/ \E sz \in Sizes : UiResizeStart(sz)
    \/ UiResizeLock
    \/ UiResizeSet

NextChunk == Env \/ PumpByBytes \/ UiSnapshots

\* A session seen at the grain of the bytes of a process() call.
ChunkSpec == Init /\ [][NextChunk]_vars

\* ------------------------------------------------------- a frame of the GUI
\* The reads of TerminalView::view, in its order.
FrameOps == <<"cells", "cursor_position", "cursor_visible">>

\* view() begins: let cells = self.cells();
FrameBegin ==
    /\ uiPc = "idle"
    /\ Len(frame) \in {0, Len(FrameOps)}
    /\ frame' = <<>>
    /\ uiPc' = "q_lock"
    /\ uiOp' = FrameOps[1]
    /\ UNCHANGED <<logging, tuiVars, pty_size, idx, color, treeVars, inputVars, viewVars, orphan,
                   partial, envVars, pumpVars, rwlock, parser, size, writer, ptyIn,
                   channel, uiArg, events, result, endedAtCall, histVars>>

\* self.cursor_position(), then self.cursor_visible(): each asks for the
\* read lock anew.
FrameNext ==
    /\ uiPc = "idle"
    /\ Len(frame) \in 1..(Len(FrameOps) - 1)
    /\ uiPc' = "q_lock"
    /\ uiOp' = FrameOps[Len(frame) + 1]
    /\ UNCHANGED <<constVars, envVars, pumpVars, rwlock, parser, size, writer, ptyIn,
                   channel, uiArg, events, result, endedAtCall, histVars>>

\* The read is made from the screen as it is, and the guard is dropped.
FrameRead ==
    /\ uiPc = "q_read"
    /\ frame' = Append(frame, parser)
    /\ rwlock' = UnlockRead(rwlock, "ui")
    /\ uiPc' = "idle"
    /\ UNCHANGED <<logging, tuiVars, pty_size, idx, color, treeVars, inputVars, viewVars, orphan,
                   partial, envVars, pumpVars, parser, size, writer, ptyIn,
                   channel, uiOp, uiArg, events, result, endedAtCall, histVars>>

UiFrame == FrameBegin \/ FrameNext \/ UiQueryLock \/ FrameRead

NextFrame == Env \/ Pump \/ UiFrame

\* A running session that the GUI draws frame after frame.
FrameSpec == Init /\ [][NextFrame]_vars

\* -------------------------------------------------- the event loop of the TUI
\* The length events must exceed for the drain to stop.
DrainLimit == 50

\* The most events that wait in the channel at a time.
MaxPending == 52

loopRest == <<logging, pty_size, idx, color, treeVars, inputVars, viewVars, otherVars,
              envVars, pumpVars, uiVars, histVars, rwlock, parser, size, writer,
              ptyIn, channel, historyVars, keyVars, editor>>

\* The input thread, the PTY reader or an AI request sends an AppEvent.
LoopProduce ==
    /\ event_rx < MaxPending
    /\ event_rx' = event_rx + 1
    /\ UNCHANGED <<loopPc, batch, handled, loopRest>>

\* terminal.draw(|f| ui(f, app))?; the iteration starts with no events.
LoopDraw ==
    /\ loopPc = "draw"
    /\ loopPc' = "recv"
    /\ batch' = 0
    /\ handled' = 0
    /\ UNCHANGED <<event_rx, loopRest>>

\* let first_event = app.event_rx.recv(), which waits for an event;
\* let mut events = vec![first_event];
LoopRecv ==
    /\ loopPc = "recv"
    /\ event_rx > 0
    /\ event_rx' = event_rx - 1
    /\ batch' = 1
    /\ loopPc' = "try_recv"
    /\ UNCHANGED <<handled, loopRest>>

\* while let Ok(e) = app.event_rx.try_recv() { events.push(e);
\*     if events.len() > 50 { break; } }
LoopTryRecv ==
    /\ loopPc = "try_recv"
    /\ IF event_rx > 0
          THEN /\ event_rx' = event_rx - 1
               /\ batch' = batch + 1
               /\ loopPc' = IF batch' > DrainLimit THEN "handle" ELSE "try_recv"
          ELSE /\ loopPc' = "handle"
               /\ UNCHANGED <<event_rx, batch>>
    /\ UNCHANGED <<handled, loopRest>>

\* for event in events { match event { .. } }: one event is handled; after
\* the last one the loop body ends and the next frame is drawn.
LoopHandle ==
    /\ loopPc = "handle"
    /\ handled < batch
    /\ handled' = handled + 1
    /\ loopPc' = IF handled' = batch THEN "draw" ELSE "handle"
    /\ UNCHANGED <<event_rx, batch, loopRest>>

NextLoop == LoopProduce \/ LoopDraw \/ LoopRecv \/ LoopTryRecv \/ LoopHandle

\* run_app draining the events its senders produce.
LoopSpec == Init /\ [][NextLoop]_vars

\* ------------------------------------------------ the reader thread of the TUI
\* let mut buffer = [0u8; 1024];
TuiBufSize == 1024

\* Mutant: the buffer is overwritten with the chunk.
extend_replaces(h, data) == data

\* h.extend_from_slice(data)
extend_from_slice(h, data) == h \o data

tuiPumpRest == <<logging, pty_size, idx, color, treeVars, inputVars, viewVars, otherVars,
                 size, writer, ptyIn, channel, uiVars, sent, polled,
                 loopPc, batch, handled, keyVars, editor>>

\* match reader.read(&mut buffer) { Ok(n) if n > 0 => { let data = &buffer[..n];
TuiPumpReadData ==
    /\ pumpPc = "read"
    /\ ptyOut # <<>>
    /\ \E k \in 1..Min(TuiBufSize, Len(ptyOut)) :
          /\ buf' = Fill(buf, SubSeq(ptyOut, 1, k))
          /\ n' = k
          /\ ptyOut' = SubSeq(ptyOut, k + 1, Len(ptyOut))
          /\ reads' = Log(reads, SubSeq(ptyOut, 1, k))
    /\ pumpPc' = "lock"
    /\ UNCHANGED <<tuiPumpRest, childOpen, produced, rwlock, parser, processed,
                   event_rx, history_buffer, hreaders, dumped>>

\* Ok(_) => break, Err(_) => break: the loop ends at end of file and on any
\* error of the read, and the thread with it.
TuiPumpBreak ==
    /\ pumpPc = "read"
    /\ pumpPc' = "done"
    /\ UNCHANGED <<tuiPumpRest, envVars, buf, n, rwlock, parser, reads, processed,
                   event_rx, history_buffer, hreaders, dumped>>

\* parser_clone.write(): the thread waits for the write lock of the parser.
TuiPumpLock ==
    /\ pumpPc = "lock"
    /\ CanWrite
    /\ rwlock' = LockWrite(rwlock, "pump")
    /\ pumpPc' = "process"
    /\ UNCHANGED <<tuiPumpRest, envVars, buf, n, parser, reads, processed,
                   event_rx, history_buffer, hreaders, dumped>>

\* p.process(data); the guard is dropped at the end of the if let.
TuiPumpProcess ==
    /\ pumpPc = "process"
    /\ parser' = process(parser, Chunk(buf, n))
    /\ processed' = Log(processed, Chunk(buf, n))
    /\ rwlock' = UnlockWrite(rwlock)
    /\ pumpPc' = "extend"
    /\ UNCHANGED <<tuiPumpRest, envVars, buf, n, reads,
                   event_rx, history_buffer, hreaders, dumped>>

\* if let Ok(mut h) = history_clone.write() { h.extend_from_slice(data); }:
\* the thread waits until no read guard of the history is held.
TuiPumpExtend ==
    /\ pumpPc = "extend"
    /\ hreaders = {}
    /\ history_buffer' = extend_from_slice(history_buffer, Chunk(buf, n))
    /\ pumpPc' = "send_data"
    /\ UNCHANGED <<tuiPumpRest, envVars, buf, n, rwlock, parser, reads, processed,
                   event_rx, hreaders, dumped>>

\* let _ = pty_tx.send(AppEvent::PtyData);
TuiPumpSend ==
    /\ pumpPc = "send_data"
    /\ event_rx' = event_rx + 1
    /\ pumpPc' = "read"
    /\ UNCHANGED <<tuiPumpRest, envVars, buf, n, rwlock, parser, reads, processed,
                   history_buffer, hreaders, dumped>>

TuiPump ==
    \/ TuiPumpReadData
    \/ TuiPumpBreak
    \/ TuiPumpLock
    \/ TuiPumpProcess
    \/ TuiPumpExtend
    \/ TuiPumpSend

\* Action::DumpHistory: if let Ok(buffer) = app.history_buffer.read() { .. }
\* the UI thread takes a read guard of the history.
DumpHistoryLock ==
    /\ uiPc = "idle"
    /\ uiPc' = "dump"
    /\ uiOp' = "DumpHistory"
    /\ hreaders' = hreaders \cup {"ui"}
    /\ UNCHANGED <<logging, pty_size, idx, color, treeVars, inputVars, viewVars, otherVars,
                   envVars, pumpVars, histVars, rwlock, parser, size, writer, ptyIn,
                   channel, uiArg, events, result, endedAtCall,
                   loopPc, event_rx, batch, handled, history_buffer, dumped, keyVars, editor>>

\* The buffer is copied into the editor, and the guard is dropped.
DumpHistoryCopy ==
    /\ uiPc = "dump"
    /\ dumped' = history_buffer
    /\ hreaders' = hreaders \ {"ui"}
    /\ uiPc' = "idle"
    /\ UNCHANGED <<logging, pty_size, idx, color, treeVars, inputVars, viewVars, otherVars,
                   envVars, pumpVars, histVars, rwlock, parser, size, writer, ptyIn,
                   channel, uiOp, uiArg, events, result, endedAtCall,
                   loopPc, event_rx, batch, handled, history_buffer, keyVars, editor>>

DumpHistory == DumpHistoryLock \/ DumpHistoryCopy

NextHistory == Env \/ TuiPump \/ UiDraw \/ DumpHistory

\* The TUI: its reader thread, the frames it draws and its history dumps.
HistorySpec == Init /\ [][NextHistory]_vars

\* ------------------------------------------------- the key presses of the TUI
\* app.key_map.get(&(key.code, key.modifiers)), with the map App::new fills.
key_map(key) ==
    CASE key = "Ctrl+q" -> Some("Quit")
      [] key = "Tab"    -> Some("SwitchFocus")
      [] key = "Esc"    -> Some("ToggleMenu")
      [] key = "Ctrl+r" -> Some("ResetLayout")
      [] key = "Ctrl+p" -> Some("FileSearch")
      [] key = "Ctrl+s" -> Some("OpenSettings")
      [] key = "Ctrl+c" -> Some("Copy")
      [] key = "Ctrl+v" -> Some("Paste")
      [] OTHER          -> None

\* The text of the clipboard, as bytes.
ClipboardText == <<112>>

\* let input_bytes = match key.code { .. } of the Terminal panel.
input_bytes(key) ==
    CASE key = "Ctrl+c" -> <<3>>
      [] key = "Ctrl+d" -> <<4>>
      [] key = "Ctrl+z" -> <<26>>
      [] key = "Ctrl+q" -> <<17>>
      [] key = "Ctrl+s" -> <<19>>
      [] key = "Ctrl+p" -> <<16>>
      [] key = "Ctrl+r" -> <<18>>
      [] key = "Ctrl+v" -> <<>>
      [] key = "Tab"    -> <<>>
      [] key = "Esc"    -> <<27>>
      [] key = "Enter"  -> <<13>>
      [] key = "a"      -> <<97>>

\* Action::SwitchFocus
SwitchFocus(panel) ==
    CASE panel = "FileTree" -> "Editor"
      [] panel = "Editor"   -> "Chat"
      [] panel = "Chat"     -> "Terminal"
      [] panel = "Terminal" -> "FileTree"

\* if app.show_settings { match key.code { .. } continue; }
KeySettings(key) ==
    /\ app.show_settings
    /\ app' = IF key \in {"Esc", "Enter"} THEN [app EXCEPT !.show_settings = FALSE] ELSE app
    /\ keyed' = [code |-> key, met |-> app, by |-> "settings", bytes |-> <<>>]

\* if app.is_searching { match key.code { .. } continue; }: Enter opens the
\* selected result, if there is one.
KeySearch(key) ==
    /\ ~app.show_settings
    /\ app.is_searching
    /\ \/ /\ key = "Esc"
          /\ app' = [app EXCEPT !.is_searching = FALSE]
       \/ /\ key = "Enter"
          /\ \/ app' = [app EXCEPT !.is_searching = FALSE, !.active_panel = "Editor"]
             \/ app' = app
       \/ /\ key \notin {"Esc", "Enter"}
          /\ app' = app
    /\ keyed' = [code |-> key, met |-> app, by |-> "search", bytes |-> <<>>]

\* What the global action does to the App.
ActionApp(action) ==
    CASE action = "Quit"         -> [app EXCEPT !.should_quit = TRUE]
      [] action = "SwitchFocus"  -> [app EXCEPT !.active_panel = SwitchFocus(@)]
      [] action = "ToggleMenu"   -> [app EXCEPT !.menu_open = FALSE]
      [] action = "ResetLayout"  -> [app EXCEPT !.active_panel = "Editor"]
      [] action = "FileSearch"   -> [app EXCEPT !.is_searching = ~@]
      [] action = "OpenSettings" -> [app EXCEPT !.show_settings = TRUE]
      [] action = "Copy"         -> app
      [] action = "Paste"        -> app

\* What the global action writes to the PTY: Paste in the Terminal panel
\* writes the text of the clipboard, if it can be had.
ActionBytes(action) ==
    IF action = "Paste" /\ app.active_panel = "Terminal"
        THEN {<<>>, ClipboardText}
        ELSE {<<>>}

\* if let Some(action) = app.key_map.get(..) { match action { .. } continue; }
KeyGlobal(key) ==
    /\ ~app.show_settings
    /\ ~app.is_searching
    /\ key_map(key) # None
    /\ app' = ActionApp(key_map(key)[2])
    /\ \E b \in ActionBytes(key_map(key)[2]) :
          keyed' = [code |-> key, met |-> app, by |-> "global", bytes |-> b]

\* if app.menu_open_idx.is_some() { app.menu_open_idx = None; continue; }
KeyMenu(key) ==
    /\ ~app.show_settings
    /\ ~app.is_searching
    /\ key_map(key) = None
    /\ app.menu_open
    /\ app' = [app EXCEPT !.menu_open = FALSE]
    /\ keyed' = [code |-> key, met |-> app, by |-> "menu", bytes |-> <<>>]

\* match app.active_panel { .. }: the Terminal panel writes input_bytes to
\* the PTY; in the file tree Enter on a file gives the focus to the editor.
KeyPanel(key) ==
    /\ ~app.show_settings
    /\ ~app.is_searching
    /\ key_map(key) = None
    /\ ~app.menu_open
    /\ \/ app' = app
       \/ /\ app.active_panel = "FileTree"
          /\ key = "Enter"
          /\ app' = [app EXCEPT !.active_panel = "Editor"]
    /\ keyed' = [code |-> key, met |-> app, by |-> "panel",
                 bytes |-> IF app.active_panel = "Terminal" THEN input_bytes(key) ELSE <<>>]

keyRest == <<logging, pty_size, idx, color, treeVars, inputVars, viewVars, otherVars,
             envVars, pumpVars, uiVars, histVars, rwlock, parser, size, writer,
             ptyIn, channel, historyVars, loopPc, event_rx, batch, handled, editor>>

\* AppEvent::Input(Event::Key(key)) is handled.
TuiKey(key) ==
    /\ \/ KeySettings(key)
       \/ KeySearch(key)
       \/ KeyGlobal(key)
       \/ KeyMenu(key)
       \/ KeyPanel(key)
    /\ UNCHANGED keyRest

\* A left click on the menu bar opens a menu or closes the open one.
MouseMenuBar ==
    /\ \E open \in BOOLEAN : app' = [app EXCEPT !.menu_open = open]
    /\ UNCHANGED <<keyed, keyRest>>

\* A left click while a menu is open: on an item, its action is executed;
\* the menu is closed.
MouseMenuItem ==
    /\ app.menu_open
    /\ \E action \in {"Quit", "OpenSettings", "ResetLayout", "Copy"} :
          app' = [ActionApp(action) EXCEPT !.menu_open = FALSE]
    /\ UNCHANGED <<keyed, keyRest>>

\* A left click in a panel while no menu is open gives it the focus.
MouseFocus ==
    /\ ~app.menu_open
    /\ \E panel \in ActivePanel : app' = [app EXCEPT !.active_panel = panel]
    /\ UNCHANGED <<keyed, keyRest>>

NextKey == (\E key \in TuiKeys : TuiKey(key)) \/ MouseMenuBar \/ MouseMenuItem \/ MouseFocus

\* The TUI handling key presses and clicks.
KeySpec == Init /\ [][NextKey]_vars

\* ------------------------------------------------------------ the editor
\* The most lines the editor holds, and the most characters in them all.
MaxLines == 21

MaxChars == 1

\* page_up(20) and page_down(20); scroll_up(3) and scroll_down(3).
PageHeight == 20

ScrollLines == 3

\* The height of the area the editor is drawn in.
ViewportHeight == 8

\* a.saturating_sub(b)
saturating_sub(a, b) == IF a > b THEN a - b ELSE 0

\* self.lines.get(self.cursor_row) is Some.
HasLine(e) == e.cursor_row < Len(e.lines)

\* The line the cursor is in; rows are counted from 0.
LineOf(e) == e.lines[e.cursor_row + 1]

\* current_line().chars().count(), "" where the row is out of range.
current_line_len(e) == IF HasLine(e) THEN Len(LineOf(e)) ELSE 0

\* vec.remove(i), i counted from 0
RemoveAt(seq, i) == SubSeq(seq, 1, i) \o SubSeq(seq, i + 2, Len(seq))

\* vec.insert(i, x), i counted from 0
InsertAt(seq, i, x) == SubSeq(seq, 1, i) \o <<x>> \o SubSeq(seq, i + 1, Len(seq))

\* The operation panics: the state stays as it was found.
Panicked(e) == [e EXCEPT !.panicked = TRUE]

\* line.chars().take(self.cursor_col): as many characters as the line has.
TakeCol(e) == Min(e.cursor_col, Len(LineOf(e)))

insert_char(e, c) ==
    IF HasLine(e)
        THEN [e EXCEPT !.lines[e.cursor_row + 1] = InsertAt(@, TakeCol(e), c),
                       !.cursor_col = @ + 1]
        ELSE e

backspace(e) ==
    IF e.cursor_col > 0
        THEN IF HasLine(e)
                 THEN IF e.cursor_col - 1 < Len(LineOf(e))
                          THEN [e EXCEPT !.lines[e.cursor_row + 1] = RemoveAt(@, e.cursor_col - 1),
                                         !.cursor_col = @ - 1]
                          ELSE Panicked(e)
                 ELSE e
        ELSE IF e.cursor_row > 0
                 THEN IF HasLine(e)
                          THEN [e EXCEPT !.lines = RemoveAt([@ EXCEPT ![e.cursor_row] = @ \o LineOf(e)],
                                                            e.cursor_row),
                                         !.cursor_row = @ - 1,
                                         !.cursor_col = Len(e.lines[e.cursor_row])]
                          ELSE Panicked(e)
                 ELSE e

delete(e) ==
    IF e.cursor_col < current_line_len(e)
        THEN [e EXCEPT !.lines[e.cursor_row + 1] = RemoveAt(@, e.cursor_col)]
        ELSE IF e.cursor_row < Len(e.lines) - 1
                 THEN [e EXCEPT !.lines = RemoveAt([@ EXCEPT ![e.cursor_row + 1] = @ \o e.lines[e.cursor_row + 2]],
                                                   e.cursor_row + 1)]
                 ELSE e

insert_newline(e) ==
    IF HasLine(e)
        THEN [e EXCEPT !.lines = InsertAt([@ EXCEPT ![e.cursor_row + 1] = SubSeq(@, 1, TakeCol(e))],
                                          e.cursor_row + 1,
                                          SubSeq(LineOf(e), TakeCol(e) + 1, Len(LineOf(e)))),
                       !.cursor_row = @ + 1,
                       !.cursor_col = 0]
        ELSE e

\* self.cursor_col = self.cursor_col.min(self.current_line_len());
ClampCol(e) == [e EXCEPT !.cursor_col = Min(@, current_line_len(e))]

move_cursor_up(e) ==
    IF e.cursor_row > 0 THEN ClampCol([e EXCEPT !.cursor_row = @ - 1]) ELSE e

move_cursor_down(e) ==
    IF e.cursor_row < Len(e.lines) - 1 THEN ClampCol([e EXCEPT !.cursor_row = @ + 1]) ELSE e

move_cursor_left(e) ==
    IF e.cursor_col > 0
        THEN [e EXCEPT !.cursor_col = @ - 1]
        ELSE IF e.cursor_row > 0
                 THEN [e EXCEPT !.cursor_row = @ - 1,
                                !.cursor_col = current_line_len([e EXCEPT !.cursor_row = @ - 1])]
                 ELSE e

move_cursor_right(e) ==
    IF e.cursor_col < current_line_len(e)
        THEN [e EXCEPT !.cursor_col = @ + 1]
        ELSE IF e.cursor_row < Len(e.lines) - 1
                 THEN [e EXCEPT !.cursor_row = @ + 1, !.cursor_col = 0]
                 ELSE e

move_cursor_home(e) == [e EXCEPT !.cursor_col = 0]

move_cursor_end(e) == [e EXCEPT !.cursor_col = current_line_len(e)]

ensure_cursor_visible(e, viewport_height) ==
    IF viewport_height = 0
        THEN e
        ELSE IF e.cursor_row < e.scroll_offset
                 THEN [e EXCEPT !.scroll_offset = e.cursor_row]
                 ELSE IF e.cursor_row >= e.scroll_offset + viewport_height
                          THEN [e EXCEPT !.scroll_offset = e.cursor_row - viewport_height + 1]
                          ELSE e

scroll_up(e, lines) == [e EXCEPT !.scroll_offset = saturating_sub(@, lines)]

scroll_down(e, lines) ==
    [e EXCEPT !.scroll_offset = Min(@ + lines, saturating_sub(Len(e.lines), 1))]

page_up(e, viewport_height) ==
    LET scrolled == [e EXCEPT !.scroll_offset = saturating_sub(@, viewport_height)]
    IN  IF scrolled.cursor_row >= scrolled.scroll_offset + viewport_height
            THEN [scrolled EXCEPT !.cursor_row = scrolled.scroll_offset
                                                  + saturating_sub(viewport_height, 1)]
            ELSE scrolled

page_down(e, viewport_height) ==
    LET max_scroll == saturating_sub(Len(e.lines), viewport_height)
        scrolled == [e EXCEPT !.scroll_offset = Min(@ + viewport_height, max_scroll)]
    IN  ClampCol(IF scrolled.cursor_row < scrolled.scroll_offset
                     THEN [scrolled EXCEPT !.cursor_row = scrolled.scroll_offset]
                     ELSE scrolled)

\* for c in text.chars() { if c == '\n' { insert_newline } else { insert_char(c) } }
RECURSIVE paste(_, _)
paste(e, text) ==
    IF text = <<>>
        THEN e
        ELSE paste(IF Head(text) = "\n" THEN insert_newline(e) ELSE insert_char(e, Head(text)),
                   Tail(text))

\* The texts pasted from the clipboard.
PasteTexts == { <<"\n", "\n", "\n", "\n">>, <<"x", "\n">> }

\* The characters typed.
EditorChars == {"x"}

RECURSIVE CharCount(_)
CharCount(lines) == IF lines = <<>> THEN 0 ELSE Len(Head(lines)) + CharCount(Tail(lines))

\* The editor holds no more than the lines and characters allowed for.
InBounds(e) == Len(e.lines) <= MaxLines /\ CharCount(e.lines) <= MaxChars

\* What the operation named makes of the editor.
EditorOp(op, e) ==
    CASE op = "backspace"         -> backspace(e)
      [] op = "delete"            -> delete(e)
      [] op = "insert_newline"    -> insert_newline(e)
      [] op = "move_cursor_up"    -> move_cursor_up(e)
      [] op = "move_cursor_down"  -> move_cursor_down(e)
      [] op = "move_cursor_left"  -> move_cursor_left(e)
      [] op = "move_cursor_right" -> move_cursor_right(e)
      [] op = "move_cursor_home"  -> move_cursor_home(e)
      [] op = "move_cursor_end"   -> move_cursor_end(e)
      [] op = "page_up"           -> page_up(e, PageHeight)
      [] op = "page_down"         -> page_down(e, PageHeight)
      [] op = "scroll_up"         -> scroll_up(e, ScrollLines)
      [] op = "scroll_down"       -> scroll_down(e, ScrollLines)

EditorOps == {"backspace", "delete", "insert_newline", "move_cursor_up", "move_cursor_down",
              "move_cursor_left", "move_cursor_right", "move_cursor_home", "move_cursor_end",
              "page_up", "page_down", "scroll_up", "scroll_down"}

editorRest == <<logging, pty_size, idx, color, treeVars, inputVars, viewVars, otherVars,
                envVars, pumpVars, uiVars, histVars, rwlock, parser, size, writer,
                ptyIn, channel, historyVars, loopPc, event_rx, batch, handled, keyVars>>

\* The editor is left in the state next, if that is within the bounds.
EditorBecomes(next) ==
    /\ ~editor.panicked
    /\ InBounds(next)
    /\ editor' = next
    /\ UNCHANGED editorRest

\* A key of the Editor panel, or the mouse wheel over it.
EditorKey(op) == EditorBecomes(EditorOp(op, editor))

\* KeyCode::Char(c) => app.editor_state.insert_char(c)
EditorChar(c) == EditorBecomes(insert_char(editor, c))

\* Action::Paste with the Editor panel active
EditorPaste(text) == EditorBecomes(paste(editor, text))

\* EditorWidget::render: state.ensure_cursor_visible(viewport_height)
EditorRender == EditorBecomes(ensure_cursor_visible(editor, ViewportHeight))

NextEditor ==
    \/ \E op \in EditorOps : EditorKey(op)
    \/ \E c \in EditorChars : EditorChar(c)
    \/ \E text \in PasteTexts : EditorPaste(text)
    \/ EditorRender

\* The editor under the keys of its panel.
EditorSpec == Init /\ [][NextEditor]_vars

\* ------------------------------------------------- a session replaced early
\* The reader thread runs: it has not left its loop.
PumpRuns == pumpPc \notin {"none", "done"}

\* start() or start_command(command) called whatever the view holds: the
\* methods themselves test nothing.  The Terminal replaced is dropped; its
\* reader thread, if it runs, runs on with its own reader and event_tx.
ViewRestart(command, failing) ==
    /\ uiPc = "idle"
    /\ LET r == spawn(command, failing) IN
          /\ spawned' = [command |-> command, failing |-> failing, returned |-> r.returned]
          /\ IF r.returned = Ok
             THEN /\ view' = [terminal |-> Session, has_exited |-> FALSE, exit_code |-> None]
                  /\ orphan' = IF PumpRuns THEN "running" ELSE orphan
                  /\ UNCHANGED <<partial, frame>>
                  /\ ptyOut' = <<>>
                  /\ childOpen' = r.child
                  /\ produced' = 0
                  /\ pumpPc' = IF r.thread THEN "read" ELSE "none"
                  /\ buf' = <<>>
                  /\ n' = 0
                  /\ rwlock' = [writer |-> "none", readers |-> {}]
                  /\ size' = TerminalSize(24, 80)
                  /\ parser' = NewParser(24, 80)
                  /\ writer' = "none"
                  /\ channel' = <<>>
                  /\ events' = <<>>
                  /\ reads' = <<>>
                  /\ processed' = <<>>
                  /\ sent' = <<>>
                  /\ polled' = <<>>
             ELSE UNCHANGED <<view, otherVars, envVars, pumpVars, rwlock, size, parser,
                              writer, channel, events, histVars>>
    /\ uiOp' = "start"
    /\ uiArg' = <<>>
    /\ result' = "none"
    /\ ptyIn' = <<>>
    /\ UNCHANGED <<logging, tuiVars, pty_size, idx, color, treeVars, inputVars, dropped,
                   uiPc, endedAtCall>>

\* Mutant: one channel for all the sessions of a view.
orphan_send_shared(q, e) == Append(q, e)

\* event_tx.send(e) in the reader thread of a replaced session: its channel
\* is the one made in the spawn of that session, whose Receiver was dropped
\* with the Terminal; the channel of the session the view holds, q, is
\* another one.
orphan_send(q, e) == q

\* The reader thread of a replaced session sends an event; after Exit or
\* Error it leaves its loop.
OrphanSend(e) ==
    /\ orphan = "running"
    /\ channel' = orphan_send(channel, e)
    /\ orphan' = IF e = Output THEN "running" ELSE "done"
    /\ UNCHANGED <<logging, tuiVars, pty_size, idx, color, treeVars, inputVars, viewVars,
                   partial, frame, envVars, pumpVars, rwlock, parser, size, writer,
                   ptyIn, uiVars, histVars>>

RestartOps ==
    \/ \E command \in {None, Some(<<"sh">>)}, failing \in {"none", "openpty"} :
          ViewRestart(command, failing)
    \/ \E e \in {Output, Exit(0), Error("Read error")} : OrphanSend(e)
    \/ ViewTickNone
    \/ ViewTickStart
    \/ ViewTickRecv

NextRestart == Env \/ Pump \/ RestartOps

\* A view whose sessions may be replaced at any time.
RestartSpec == InitUnstarted /\ [][NextRestart]_vars

\* ------------------------------------------------- the GUI's terminal panel
\* Keys pressed while the terminal panel has the focus.
Keys == {"Ctrl+c", "Ctrl+d", "Ctrl+z", "Ctrl+a", "x", "Enter", "Backspace", "Escape",
         "ArrowUp", "ArrowDown", "ArrowRight", "ArrowLeft", "Space", "Tab"}

\* What the else branch of the key handler sends for a key; nothing for a
\* key that falls to _ => {}.
KeyBytes(key) ==
    CASE key = "Ctrl+c" -> <<3>>
      [] key = "Ctrl+d" -> <<4>>
      [] key = "Ctrl+z" -> <<26>>
      [] key = "x" -> <<120>>
      [] key = "Enter" -> <<13>>
      [] key = "Backspace" -> <<127>>
      [] key = "Escape" -> <<27>>
      [] key = "ArrowUp" -> <<27, 91, 65>>
      [] key = "ArrowDown" -> <<27, 91, 66>>
      [] key = "ArrowRight" -> <<27, 91, 67>>
      [] key = "ArrowLeft" -> <<27, 91, 68>>
      [] key = "Space" -> <<32>>
      [] OTHER -> <<>>

\* Mutant: the keys are forwarded to whatever terminal the view holds.
ForwardsHeld == view.terminal # None

\* if !self.terminal_view.is_running() { .. } else { forward }, and
\* if self.terminal_view.is_running() of Message::TerminalInput.
Forwards == is_running

\* A key is pressed while the view forwards: its bytes go to input().
GuiKeyForward(key) ==
    /\ Forwards
    /\ KeyBytes(key) # <<>>
    /\ UiInputStart(KeyBytes(key))

\* Message::TerminalInput(input) while the view forwards.
GuiTerminalInput(data) ==
    /\ Forwards
    /\ UiInputStart(data)

\* A key that starts nothing and sends nothing: any key but Enter while the
\* view does not forward, a key of the _ => {} arms while it does.
GuiKeyIgnored(key) ==
    /\ uiPc = "idle"
    /\ IF Forwards THEN KeyBytes(key) = <<>> ELSE key # "Enter"
    /\ uiOp' = "ignored"
    /\ result' = "none"
    /\ ptyIn' = <<>>
    /\ UNCHANGED <<constVars, envVars, pumpVars, rwlock, parser, size, writer,
                   channel, uiPc, uiArg, events, endedAtCall, histVars>>

\* Enter while the view is not running, and Message::TerminalStart: start().
GuiStart(failing) == ViewStart(None, failing)

GuiOps ==
    \/ \E key \in Keys : GuiKeyForward(key)
    \/ \E data \in InputData : GuiTerminalInput(data)
    \/ \E key \in Keys : GuiKeyIgnored(key)
    \/ \E failing \in Failing : GuiStart(failing)
    \/ UiInputLock
    \/ UiInputWrite
    \/ ViewTickNone
    \/ ViewTickStart
    \/ ViewTickRecv

NextGui == Env \/ Pump \/ GuiOps

\* The terminal panel of the GUI from its creation on.
GuiSpec == InitUnstarted /\ [][NextGui]_vars

\* ------------------------------------------------------ a dropped Terminal
\* The Terminal goes out of scope: its parser handle, its writer, its
\* receiver with the events still in the channel, and the JoinHandle are
\* dropped.  There is no Drop impl: nothing is sent to the child, nothing
\* tells the reader thread, which owns reader and event_tx.
DropTerminal ==
    /\ ~dropped
    /\ uiPc = "idle"
    /\ dropped' = TRUE
    /\ channel' = <<>>
    /\ UNCHANGED <<logging, tuiVars, pty_size, otherVars, idx, color, treeVars, inputVars, view, spawned,
                   envVars, pumpVars, rwlock, parser, size, writer, ptyIn,
                   uiVars, histVars>>

\* What the UI does with a Terminal it still holds.
UiHolding ==
    /\ ~dropped
    /\ \/ UiPollStart
       \/ UiPollRecv
       \/ \E data \in InputData : UiInputStart(data)
       \/ UiInputLock
       \/ UiInputWrite

NextDrop == Env \/ Pump \/ UiHolding \/ DropTerminal

\* A session that the UI may drop at any time.
DropSpec == Init /\ [][NextDrop]_vars

\* The handles on the master side of the PTY that are open: the writer the
\* Terminal owns, the reader the reader thread owns until it returns.  The
\* pair itself went out of scope when spawn returned.
MasterHandles ==
    (IF dropped THEN {} ELSE {"writer"})
        \cup (IF pumpPc \in {"none", "done"} THEN {} ELSE {"reader"})

\* ------------------------------------------------- input() from two threads
\* The most calls of input() a thread makes.
MaxCalls == 2

\* Mutant: the lock is granted whoever holds it.
MutexFreeAlways(m) == TRUE

\* parking_lot::Mutex::lock() returns when nobody holds the mutex.
MutexFree(m) == m = "none"

\* input(data) is called.
InputCall(c, data) ==
    /\ callers[c].pc = "idle"
    /\ callers[c].call < MaxCalls
    /\ callers' = [callers EXCEPT ![c] = [pc |-> "lock", data |-> data, at |-> 0,
                                          call |-> callers[c].call + 1]]
    /\ UNCHANGED <<logging, tuiVars, pty_size, otherVars, idx, color, treeVars, stream, viewVars, envVars,
                   pumpVars, rwlock, parser, size, writer, ptyIn, channel, uiVars, histVars>>

\* let mut writer = self.writer.lock();
InputLock(c) ==
    /\ callers[c].pc = "lock"
    /\ MutexFree(writer)
    /\ writer' = c
    /\ callers' = [callers EXCEPT ![c].pc = "write_all"]
    /\ UNCHANGED <<logging, tuiVars, pty_size, otherVars, idx, color, treeVars, stream, viewVars, envVars,
                   pumpVars, rwlock, parser, size, ptyIn, channel, uiVars, histVars>>

\* The bytes from..to of a call, as the PTY takes them.
Taken(c, from, to) ==
    [k \in 1..(to - from + 1) |->
        [who |-> c, call |-> callers[c].call, at |-> from + k - 1,
         byte |-> callers[c].data[from + k - 1]]]

\* One write() of write_all(data): the PTY takes some of the bytes that are
\* left; write_all goes on until it took them all.
InputWrite(c) ==
    /\ callers[c].pc = "write_all"
    /\ \E k \in 1..(Len(callers[c].data) - callers[c].at) :
          /\ stream' = stream \o Taken(c, callers[c].at + 1, callers[c].at + k)
          /\ callers' = [callers EXCEPT
                 ![c].at = @ + k,
                 ![c].pc = IF callers[c].at + k = Len(callers[c].data)
                           THEN "flush" ELSE "write_all"]
    /\ UNCHANGED <<logging, tuiVars, pty_size, otherVars, idx, color, treeVars, viewVars, envVars,
                   pumpVars, rwlock, parser, size, writer, ptyIn, channel, uiVars, histVars>>

\* A write() fails: .map_err(..)? returns the error and the guard is dropped.
InputWriteErr(c) ==
    /\ callers[c].pc = "write_all"
    /\ writer' = "none"
    /\ callers' = [callers EXCEPT ![c].pc = "idle"]
    /\ UNCHANGED <<logging, tuiVars, pty_size, otherVars, idx, color, treeVars, stream, viewVars, envVars,
                   pumpVars, rwlock, parser, size, ptyIn, channel, uiVars, histVars>>

\* writer.flush(), Ok or not, and the guard is dropped on return.
InputFlush(c) ==
    /\ callers[c].pc = "flush"
    /\ writer' = "none"
    /\ callers' = [callers EXCEPT ![c].pc = "idle"]
    /\ UNCHANGED <<logging, tuiVars, pty_size, otherVars, idx, color, treeVars, stream, viewVars, envVars,
                   pumpVars, rwlock, parser, size, ptyIn, channel, uiVars, histVars>>

NextWriter ==
    \E c \in Callers :
       \/ \E data \in InputData : InputCall(c, data)
       \/ InputLock(c)
       \/ InputWrite(c)
       \/ InputWriteErr(c)
       \/ InputFlush(c)

\* One Terminal whose input() is called from two threads at once.
WriterSpec == Init /\ [][NextWriter]_vars

\* ------------------------------------------------------------ the file tree
\* The most nodes a listed tree has.
MaxNodes == 5

\* struct FileNode.  A path is the sequence of the positions that lead to
\* the node; name is its last component, as file_name() gives it, and depth
\* is what from_path(e.path(), self.depth + 1) counts.
FileNode(path, expanded, children) ==
    [path |-> path, name |-> path[Len(path)],
     is_dir |-> (expanded \/ children # <<>>),
     expanded |-> expanded, children |-> children, depth |-> Len(path) - 1]

\* The number of nodes of a tree.
RECURSIVE CountNodes(_)
CountNodes(node) ==
    LET RECURSIVE sum(_)
        sum(i) == IF i > Len(node.children)
                  THEN 0
                  ELSE CountNodes(node.children[i]) + sum(i + 1)
    IN 1 + sum(1)

\* The trees at a path with at most m nodes, every node expanded or not, a
\* collapsed node with its children still loaded among them; and the lists
\* of children from position i on that have at most m nodes together.
RECURSIVE FileNodes(_, _)
RECURSIVE ChildLists(_, _, _)
FileNodes(path, m) ==
    IF m = 0
    THEN {}
    ELSE {FileNode(path, e, cs) : e \in BOOLEAN, cs \in ChildLists(path, 1, m - 1)}

ChildLists(path, i, m) ==
    {<<>>} \cup UNION {{<<c>> \o rest : rest \in ChildLists(path, i + 1, m - CountNodes(c))} :
                         c \in FileNodes(Append(path, i), m)}

\* struct VisibleItem, as flatten_node fills it from the node.
VisibleItem(node) ==
    [name |-> node.name, path |-> node.path, is_dir |-> node.is_dir,
     depth |-> node.depth, expanded |-> node.expanded]

\* Mutant: the children are listed whether or not the node is expanded.
RECURSIVE flatten_node_all(_, _)
flatten_node_all(node, items) ==
    LET RECURSIVE each(_, _)
        each(i, acc) ==
            IF i > Len(node.children)
            THEN acc
            ELSE each(i + 1, flatten_node_all(node.children[i], acc))
    IN each(1, Append(items, VisibleItem(node)))

\* flatten_node(node, visible_items): the vector after the call.
RECURSIVE flatten_node(_, _)
flatten_node(node, items) ==
    LET pushed == Append(items, VisibleItem(node))
        RECURSIVE each(_, _)
        each(i, acc) ==
            IF i > Len(node.children)
            THEN acc
            ELSE each(i + 1, flatten_node(node.children[i], acc))
    IN IF node.expanded THEN each(1, pushed) ELSE pushed

\* Any tree of at most MaxNodes nodes is to be listed.
InitTree ==
    /\ logging = TRUE /\ InitCommon /\ InitColor /\ InitNoCallers /\ InitStarted /\ InitOther /\ InitTui
    /\ tree \in FileNodes(<<1>>, MaxNodes)
    /\ visible_items = <<>>

\* visible_items.clear(); flatten_node(node, &mut visible_items);
FlattenTree ==
    /\ visible_items = <<>>
    /\ visible_items' = flatten_node(tree, visible_items)
    /\ UNCHANGED <<logging, tuiVars, pty_size, otherVars, idx, color, tree, inputVars, viewVars, envVars,
                   pumpVars, rwlock, parser, size, writer, ptyIn, channel, uiVars, histVars>>

NextTree == FlattenTree

\* flatten_node applied to every tree of at most MaxNodes nodes.
TreeSpec == InitTree /\ [][NextTree]_vars

\* ================================================================ claims
Front(q) == SubSeq(q, 1, Len(q) - 1)

Last(q) == q[Len(q)]

\* The pump has read a chunk that it has not processed yet.
ChunkPending == pumpPc \in {"lock", "process"}

\* C1: the chunks handed to process() are the chunks the reads returned, one
\* process() call per read, in read order; the only chunk read and not yet
\* processed is the one the pump holds, and the bytes applied are the
\* concatenation of the chunks read before it.
C1_ReadOrder ==
    /\ processed = IF ChunkPending THEN Front(reads) ELSE reads
    /\ ChunkPending => reads # <<>> /\ Chunk(buf, n) = Last(reads)
    /\ Flatten(processed) = Flatten(IF ChunkPending THEN Front(reads) ELSE reads)

\* Two chunks were processed, the second shorter than the first.
C1_Witness ==
    /\ Len(processed) >= 2
    /\ Len(processed[1]) > Len(processed[2])
    /\ pumpPc = "send_output"

PumpBlocked == pumpPc = "lock" /\ ~CanWrite

UiBlocked ==
    \/ uiPc = "q_lock" /\ ~CanRead
    \/ uiPc \in {"rs_lock", "tg_lock"} /\ ~CanWrite
    \/ uiPc = "in_lock" /\ writer # "none"

\* C2: in no reachable state are both threads waiting for the parser lock or
\* the writer mutex; a thread that waits, waits for a lock the other holds.
C2_NoDeadlock ==
    /\ ~(PumpBlocked /\ UiBlocked)
    /\ PumpBlocked => rwlock.writer = "ui" \/ rwlock.readers = {"ui"}
    /\ UiBlocked => rwlock.writer = "pump"

\* The UI waits for the read lock while the pump holds the write lock.
C2_Witness == uiPc = "q_lock" /\ uiOp = "cells" /\ ~CanRead /\ pumpPc = "process"

\* C4: the pump holds the write lock only at its process() step, with one
\* chunk of 1..4096 bytes that is not processed yet; processing the chunk and
\* releasing the lock are one step, so the lock is never held in a read or a send.
C4_LockOnlyForOneChunk ==
    /\ [](rwlock.writer = "pump" =>
            /\ pumpPc = "process"
            /\ n >= 1 /\ n <= BufSize /\ Len(Chunk(buf, n)) = n
            /\ Len(processed) = Len(reads) - 1)
    /\ [](pumpPc \in {"read", "lock", "send_output", "send_exit", "send_error", "done"}
            => rwlock.writer # "pump")
    /\ [][processed' # processed =>
            /\ rwlock.writer = "pump"
            /\ rwlock'.writer = "none"
            /\ Len(processed') = Len(processed) + 1]_vars

\* The pump holds the write lock for its second chunk.
C4_Witness == rwlock.writer = "pump" /\ Len(processed) = 1 /\ n = 2

\* C5 as claimed: the UI thread never holds the write lock, and the parser
\* changes only in the pump's process() step.
C5_UiNeverWrites ==
    [][/\ rwlock'.writer # "ui"
       /\ parser' # parser => pumpPc = "process" /\ pumpPc' = "send_output"]_vars

\* C5 as amended: only the pump calls process(), under its write lock.  The
\* UI thread takes the write lock in resize(), which calls set_size and
\* leaves the processed bytes alone, and in the TUI's toggle_theme(), which
\* replaces the parser by an empty one of the same dimensions; in no other
\* operation does the UI hold the write lock or change the parser.
C5_UiWritesOnlyInResizeAndToggle ==
    /\ [](rwlock.writer = "ui" => uiPc \in {"rs_set", "tg_reset"})
    /\ [][parser' # parser =>
            \/ /\ pumpPc = "process" /\ pumpPc' = "send_output"
               /\ rwlock.writer = "pump"
               /\ parser' = process(parser, Chunk(buf, n))
               /\ UNCHANGED uiPc
            \/ /\ uiPc = "rs_set" /\ uiPc' = "idle"
               /\ rwlock.writer = "ui"
               /\ parser'.fed = parser.fed
               /\ parser'.rows = uiArg[1] /\ parser'.cols = uiArg[2]
               /\ UNCHANGED pumpPc
            \/ /\ uiPc = "tg_reset" /\ uiPc' = "tg_write"
               /\ rwlock.writer = "ui"
               /\ parser' = NewParser(parser.rows, parser.cols)
               /\ UNCHANGED pumpPc]_vars

\* resize() holds the write lock on a parser that has processed output, and
\* is about to change its dimensions.
C5_Witness ==
    /\ uiPc = "rs_set"
    /\ rwlock.writer = "ui"
    /\ parser.fed # <<>>
    /\ uiArg[1] # parser.rows

IsExit(e) == e.type = "Exit"

IsError(e) == e.type = "Error"

Positions(q, Test(_)) == {i \in 1..Len(q) : Test(q[i])}

\* C6: end of file makes the pump send Exit(0) once and stop.  At most one
\* Exit is ever sent, it is Exit(0), it is the last event sent (so the last
\* in the channel, with no Output after it), and the pump is done after it;
\* on the way to sending it nothing final has been sent yet.
C6_ExitOnceAndLast ==
    /\ [](/\ Cardinality(Positions(sent, IsExit)) <= 1
          /\ \A i \in Positions(sent, IsExit) :
                i = Len(sent) /\ sent[i] = Exit(0) /\ pumpPc = "done"
          /\ \A i \in Positions(channel, IsExit) : i = Len(channel)
          /\ pumpPc = "send_exit" =>
                /\ n = 0 /\ ptyOut = <<>> /\ ~childOpen
                /\ Positions(sent, IsExit) = {} /\ Positions(sent, IsError) = {}
          /\ pumpPc = "done" => sent # <<>> /\ (IsExit(Last(sent)) \/ IsError(Last(sent))))
    /\ [][pumpPc = "send_exit" /\ pumpPc' # pumpPc =>
            /\ sent' = Append(sent, Exit(0))
            /\ channel' = Append(channel, Exit(0))
            /\ pumpPc' = "done"]_vars
    /\ [][pumpPc = "done" => pumpPc' = "done" /\ sent' = sent]_vars

\* The child wrote, exited, and the pump sent Output and then Exit(0).
C6_Witness ==
    /\ pumpPc = "done"
    /\ Len(sent) >= 2
    /\ Last(sent) = Exit(0)
    /\ sent[1] = Output

\* C7: a failed read makes the pump send one Error and stop.  At most one
\* Error is ever sent, it is the last event sent, and the pump is done after
\* it; nothing is processed for the failed read (every chunk processed was
\* returned by an earlier read); Exit and Error are never both sent.
C7_ErrorOnceAndLast ==
    /\ [](/\ Cardinality(Positions(sent, IsError)) <= 1
          /\ \A i \in Positions(sent, IsError) : i = Len(sent) /\ pumpPc = "done"
          /\ \A i \in Positions(channel, IsError) : i = Len(channel)
          /\ pumpPc = "send_error" =>
                /\ processed = reads
                /\ Positions(sent, IsExit) = {} /\ Positions(sent, IsError) = {}
          /\ Positions(sent, IsError) # {} => processed = reads
          /\ ~(Positions(sent, IsExit) # {} /\ Positions(sent, IsError) # {}))
    /\ [][pumpPc = "read" /\ pumpPc' = "send_error" =>
            UNCHANGED <<parser, processed, reads, buf, n, ptyOut, sent, channel>>]_vars
    /\ [][pumpPc = "send_error" /\ pumpPc' # pumpPc =>
            /\ sent' = Append(sent, Error("Read error"))
            /\ channel' = Append(channel, Error("Read error"))
            /\ UNCHANGED <<parser, processed>>
            /\ pumpPc' = "done"]_vars

\* A read failed with bytes waiting in the PTY, after one chunk was
\* processed; the pump sent Output and then Error.
C7_Witness ==
    /\ pumpPc = "done"
    /\ Len(sent) >= 2
    /\ IsError(Last(sent))
    /\ ptyOut # <<>>
    /\ Len(processed) = 1

\* C8 as claimed: an input() call that begins after the pump has sent Exit or
\* Error returns a "not running" error and writes nothing to the PTY writer.
C8_InputFailsAfterExit ==
    [][(uiPc = "in_write" /\ endedAtCall /\ uiPc' = "idle") =>
          result' = "Terminal not running" /\ ptyIn' = <<>>]_vars

\* What the consumer has received: the vectors returned, and the one being filled.
Received == polled \o (IF uiPc = "poll" THEN events ELSE <<>>)

\* C9: the events received, followed by those still in the channel, are the
\* events the pump sent, in order: none lost, none duplicated.  So what the
\* polls returned is a prefix of what was sent; and a poll that begins after
\* the pump has stopped returns everything that was left.
C9_NoEventLostOrDuplicated ==
    /\ [](Received \o channel = sent)
    /\ [](\A i \in 1..Len(polled) : i <= Len(sent) /\ polled[i] = sent[i])
    /\ [][(uiPc = "poll" /\ endedAtCall /\ uiPc' = "idle") =>
            polled' = sent /\ channel' = <<>>]_vars

\* A poll is under way with events received before it, events taken by it,
\* and events still in the channel.
C9_Witness ==
    /\ uiPc = "poll"
    /\ polled # <<>>
    /\ events # <<>>
    /\ channel # <<>>

\* The UI thread waits for the read lock.
UiWaitsForRead == uiPc = "q_lock"

\* C3: under a fair scheduler a UI request for the read lock is granted; and
\* while the UI waits with the lock taken, the pump is in the process() call
\* of one chunk and its next step frees the lock, so the lock can be had
\* after at most one chunk's processing.
C3_ReadLockGranted ==
    /\ UiWaitsForRead ~> uiPc = "q_read"
    /\ [](UiWaitsForRead /\ ~CanRead => rwlock.writer = "pump" /\ pumpPc = "process")
    /\ [][UiWaitsForRead /\ ~CanRead /\ pumpPc' # pumpPc => CanRead']_vars

\* cells() waits for the read lock while the pump holds the write lock, in an
\* endless stream.
C3_Witness ==
    /\ ~logging
    /\ UiWaitsForRead /\ uiOp = "cells"
    /\ rwlock.writer = "pump"
    /\ channel # <<>>

\* C10 as claimed: every poll_events() call returns, whatever the pump does.
C10_PollAlwaysReturns == (uiPc = "poll") ~> (uiPc = "idle")

\* C10 as amended: poll_events() never waits: its try_recv step can always be
\* taken, and the try_recv that finds the channel empty ends the call, with
\* an empty vector if it is the first.  Every other turn of the loop takes
\* one event out of the channel, so the call ends after finitely many steps
\* once the pump has stopped sending (it need not end while the pump sends
\* at least as fast as the loop receives).
C10_PollNeverWaits ==
    /\ [](uiPc = "poll" => ENABLED UiPollRecv)
    /\ [][uiPc = "idle" /\ uiPc' = "poll" => events' = <<>>]_vars
    /\ [][uiPc = "poll" /\ channel' # channel /\ UNCHANGED pumpPc =>
            /\ uiPc' = "poll"
            /\ channel # <<>> /\ channel' = Tail(channel)
            /\ logging => events' = Append(events, Head(channel))]_vars
    /\ [][uiPc = "poll" /\ channel = <<>> /\ UNCHANGED <<pumpPc, ptyOut, childOpen>> =>
            UNCHANGED vars \/ (uiPc' = "idle" /\ events' = events)]_vars
    /\ [][uiPc = "poll" /\ uiPc' = "idle" =>
            channel = <<>> /\ UNCHANGED <<events, channel>>]_vars
    /\ (uiPc = "poll" /\ pumpPc = "done") ~> (uiPc = "idle")

\* A poll that found the channel empty at its first try_recv is about to
\* return the empty vector, in a logged run.
C10_Witness ==
    /\ logging
    /\ uiPc = "poll"
    /\ channel = <<>>
    /\ events = <<>>
    /\ sent # <<>>

\* The base-6 digits of k, most significant first.
Digits6(k) ==
    CHOOSE d \in (0..5) \X (0..5) \X (0..5) : 36 * d[1] + 6 * d[2] + d[3] = k

\* The palette's level for a digit of the cube.
PaletteLevel(d) == IF d = 0 THEN 0 ELSE d * 40 + 55

\* C20: from_256_color returns a colour with three channels in 0..255 for
\* every index 0..255, and no u8 operation it evaluates overflows; for
\* 16 <= i < 232 the channels are the palette levels of the base-6 digits of
\* i - 16, red from the most significant digit and blue from the least; for
\* i >= 232 all three channels are (i - 232) * 10 + 8.
C20_PaletteRules ==
    color # NoColor =>
        /\ color \in [r : 0..255, g : 0..255, b : 0..255]
        /\ \A x \in U8Results(idx) : ~Overflow(x)
        /\ (16 <= idx /\ idx < 232) =>
               LET d == Digits6(idx - 16) IN
               color = [r |-> PaletteLevel(d[1]), g |-> PaletteLevel(d[2]), b |-> PaletteLevel(d[3])]
        /\ idx >= 232 =>
               LET gray == (idx - 232) * 10 + 8 IN color = [r |-> gray, g |-> gray, b |-> gray]

\* Index 196 of the cube, digits 5 0 0, was resolved to pure red; index 255,
\* the end of the ramp, is not the case here.
C20_Witness == idx = 196 /\ color = [r |-> 255, g |-> 0, b |-> 0]

IsOutput(e) == e.type = "Output"

Count(q, Test(_)) == Cardinality(Positions(q, Test))

\* xs is the beginning of ys.
IsPrefix(xs, ys) == Len(xs) <= Len(ys) /\ SubSeq(ys, 1, Len(xs)) = xs

\* C11: one Output is sent per chunk, after the chunk was processed and the
\* write lock released: the Outputs sent are as many as the chunks processed,
\* less the one whose Output is the pump's next step; every chunk is
\* non-empty; an Output is sent with the lock free and the screen holding
\* every chunk processed.  So when the consumer has received k Outputs, k
\* chunks at least were processed, and a cells() snapshot taken then holds
\* the bytes of the first k chunks, in order.
C11_OutputAfterProcess ==
    /\ [](/\ Count(sent, IsOutput) =
                Len(processed) - (IF pumpPc = "send_output" THEN 1 ELSE 0)
          /\ \A i \in 1..Len(processed) : processed[i] # <<>>
          /\ Count(Received, IsOutput) <= Len(processed))
    /\ [][Count(sent', IsOutput) # Count(sent, IsOutput) =>
            /\ sent' = Append(sent, Output)
            /\ rwlock.writer # "pump"
            /\ parser.fed = Flatten(processed)
            /\ Len(processed) = Count(sent, IsOutput) + 1]_vars
    /\ [](uiPc = "q_read" /\ uiOp = "cells" =>
            LET k == Count(Received, IsOutput) IN
            IsPrefix(Flatten(SubSeq(processed, 1, k)), parser.fed))

\* cells() takes its snapshot after one Output was received, while the pump
\* has processed a second chunk and not sent its Output yet.
C11_Witness ==
    /\ uiPc = "q_read" /\ uiOp = "cells"
    /\ Count(Received, IsOutput) = 1
    /\ Len(processed) = 2
    /\ pumpPc = "send_output"

\* C12: the grid cells() returns while it holds the read lock has size().rows
\* rows of size().cols cells each, whatever the pump is doing and whichever
\* resizes came before.
C12_CellsDimensions ==
    (uiPc = "q_read" /\ uiOp = "cells") =>
        LET grid == cells(size, parser) IN
        /\ Len(grid) = size.rows
        /\ \A row_idx \in 1..Len(grid) : Len(grid[row_idx]) = size.cols

\* cells() takes its snapshot of a screen that was resized to 10 x 40 after
\* output was processed, while the pump waits for the write lock with the
\* next chunk.
C12_Witness ==
    /\ uiPc = "q_read" /\ uiOp = "cells"
    /\ size = TerminalSize(10, 40)
    /\ parser.fed # <<>>
    /\ pumpPc = "lock"

\* C13 as claimed: when resize(size) returns, the window size of the PTY, the
\* dimensions of the screen and size() are all the size asked for.
C13_ResizeReachesPty ==
    [][(uiPc = "rs_set" /\ uiPc' = "idle") =>
          /\ size' = TerminalSize(uiArg[1], uiArg[2])
          /\ parser'.rows = uiArg[1] /\ parser'.cols = uiArg[2]
          /\ pty_size' = TerminalSize(uiArg[1], uiArg[2])]_vars

\* The pump is in its read call with nothing to read: it stays there for as
\* long as the child writes nothing and does not exit.
PumpWaitsInRead == pumpPc = "read" /\ ptyOut = <<>> /\ childOpen

\* C14: resize() waits for the write lock and for nothing else, and the pump
\* does not hold that lock while it reads: a resize() that finds the pump in
\* its read call can take the lock at once and then finish, with no step of
\* the pump; under a fair scheduler every resize() call returns, also when
\* the pump stays in one read call for ever.
C14_ResizeNeverWaitsForRead ==
    /\ [](uiPc = "rs_lock" /\ pumpPc = "read" => CanWrite /\ ENABLED UiResizeLock)
    /\ [](uiPc = "rs_set" => rwlock.writer = "ui" /\ ENABLED UiResizeSet)
    /\ [][uiPc = "rs_lock" /\ uiPc' # uiPc => uiPc' = "rs_set" /\ UNCHANGED <<pumpVars, envVars>>]_vars
    /\ [][uiPc = "rs_set" /\ uiPc' # uiPc => uiPc' = "idle" /\ UNCHANGED <<pumpVars, envVars>>]_vars
    /\ (uiPc = "rs_lock") ~> (uiPc = "idle")

\* resize() asks for the write lock while the pump waits in read() for a
\* child that is silent, after earlier output.
C14_Witness ==
    /\ uiPc = "rs_lock"
    /\ PumpWaitsInRead
    /\ parser.fed # <<>>
    /\ TerminalSize(uiArg[1], uiArg[2]) # TerminalSize(parser.rows, parser.cols)

\* C18 as claimed: the size of the session never has a zero dimension.
C18_SizeAtLeastOne == size.rows >= 1 /\ size.cols >= 1

\* The default cell, as the claims state it.
SpaceOnBlack ==
    [c |-> " ", fg |-> [r |-> 211, g |-> 215, b |-> 207], bg |-> [r |-> 0, g |-> 0, b |-> 0],
     bold |-> FALSE, italic |-> FALSE, underline |-> FALSE, inverse |-> FALSE]

\* C21 as claimed: while nothing was processed, so that no cell of the screen
\* was ever written, every cell cells() and row() return is the default cell:
\* a space, light gray on black, no attribute.
C21_BlankCellIsDefault ==
    (uiPc = "q_read" /\ parser.fed = <<>>) =>
        /\ uiOp = "cells" =>
              \A row_idx \in 1..size.rows : \A col_idx \in 1..size.cols :
                 cells(size, parser)[row_idx][col_idx] = SpaceOnBlack
        /\ uiOp = "row" =>
              \A col_idx \in 1..size.cols : row(size, parser, uiArg[1])[col_idx] = SpaceOnBlack

\* C26: row(row_idx) returns size().cols cells for every row_idx, and cells()
\* size().rows rows of as many; the cell of a position the parser's grid does
\* not have is the default cell; the query always goes on to return.
C26_OutOfBoundsIsDefault ==
    uiPc = "q_read" =>
        /\ ENABLED UiQueryRead
        /\ uiOp = "row" =>
              LET cs == row(size, parser, uiArg[1]) IN
              /\ Len(cs) = size.cols
              /\ \A col_idx \in 1..Len(cs) :
                    (uiArg[1] >= parser.rows \/ col_idx - 1 >= parser.cols) => cs[col_idx] = SpaceOnBlack
        /\ uiOp = "cells" =>
              LET grid == cells(size, parser) IN
              /\ Len(grid) = size.rows
              /\ \A row_idx \in 1..Len(grid) :
                    /\ Len(grid[row_idx]) = size.cols
                    /\ \A col_idx \in 1..size.cols :
                          (row_idx - 1 >= parser.rows \/ col_idx - 1 >= parser.cols)
                             => grid[row_idx][col_idx] = SpaceOnBlack

\* row(15) reads a grid that was resized to 10 rows, after output.
C26_Witness ==
    /\ uiPc = "q_read" /\ uiOp = "row" /\ uiArg = <<15>>
    /\ parser.rows = 10
    /\ parser.fed # <<>>

\* The byte the claim gives for each wrapper: 0x03, 0x04, 0x1A.
ClaimedByte(w) ==
    IF w = "send_interrupt" THEN 3 ELSE IF w = "send_eof" THEN 4 ELSE 26

\* C28: send_interrupt(), send_eof() and send_suspend() pass one byte to
\* input(), 0x03, 0x04 and 0x1A; the PTY writer takes that byte and no other
\* in the call, in the one step that writes and flushes under the mutex: the
\* byte when write_all succeeded (flush was then called), nothing when it failed.
C28_OneControlByte ==
    /\ [](uiOp \in Wrappers => uiArg = <<ClaimedByte(uiOp)>>)
    /\ [](uiOp \in Wrappers /\ uiPc \in {"in_lock", "in_write"} => ptyIn = <<>>)
    /\ [][(uiOp \in Wrappers /\ uiPc = "in_write" /\ uiPc' = "idle") =>
            /\ writer = "ui" /\ writer' = "none"
            /\ result' \in {"Ok", "Flush error"} => ptyIn' = <<ClaimedByte(uiOp)>>
            /\ result' = "Write error" => ptyIn' = <<>>
            /\ result' \in InputResults]_vars

\* send_suspend() has written its byte and returned Ok.
C28_Witness == uiPc = "idle" /\ result = "Ok" /\ ptyIn = <<26>>

\* The UI thread holds a lock on the parser.
UiHoldsLock == rwlock.writer = "ui" \/ "ui" \in rwlock.readers

\* C27 as claimed: between its operations on the screen and while it draws
\* a frame the UI thread holds no lock on the parser, so that a pump that
\* asks for the write lock then gets it.
C27_NoLockWhileDrawing ==
    uiPc \in {"idle", "dr_terminal", "dr_rest"} =>
        /\ ~UiHoldsLock
        /\ pumpPc = "lock" => ENABLED PumpLock

\* The node a path leads to, and the paths of all the nodes below a node.
RECURSIVE NodeAt(_, _)
NodeAt(node, path) ==
    IF Len(path) = Len(node.path)
    THEN node
    ELSE NodeAt(node.children[path[Len(node.path) + 1]], path)

RECURSIVE AllPaths(_)
AllPaths(node) ==
    {node.path} \cup UNION {AllPaths(node.children[i]) : i \in 1..Len(node.children)}

\* A node is visible when every node above it, up to the one listed, is expanded.
Visible(path) ==
    \A k \in Len(tree.path)..(Len(path) - 1) : NodeAt(tree, SubSeq(path, 1, k)).expanded

\* p comes before q in pre-order: p is above q, or p branches off to an
\* earlier child where the two part.
PreOrderBefore(p, q) ==
    \/ Len(p) < Len(q) /\ SubSeq(q, 1, Len(p)) = p
    \/ \E k \in 1..Min(Len(p), Len(q)) :
          /\ SubSeq(p, 1, k - 1) = SubSeq(q, 1, k - 1)
          /\ p[k] < q[k]

\* C29: flatten_node lists exactly the visible nodes, each once, in
\* pre-order (the node first, then its children in child order when it is
\* expanded), each with the node's own fields; nothing below a collapsed
\* node is listed.
C29_PreOrderOfVisible ==
    visible_items # <<>> =>
        /\ visible_items[1].path = tree.path
        /\ {visible_items[i].path : i \in 1..Len(visible_items)}
               = {p \in AllPaths(tree) : Visible(p)}
        /\ \A i, j \in 1..Len(visible_items) :
               i < j => PreOrderBefore(visible_items[i].path, visible_items[j].path)
        /\ \A i \in 1..Len(visible_items) :
               visible_items[i] = VisibleItem(NodeAt(tree, visible_items[i].path))
        /\ \A i \in 1..Len(visible_items) :
               \A k \in 1..(Len(visible_items[i].path) - 1) :
                  NodeAt(tree, SubSeq(visible_items[i].path, 1, k)).expanded

\* A node with an expanded child and a collapsed child that both have a
\* child was listed: of the two grandchildren only the expanded child's is
\* in the list.
C29_Witness ==
    /\ Len(visible_items) = 4
    /\ tree.expanded
    /\ Len(tree.children) = 2
    /\ tree.children[1].expanded /\ Len(tree.children[1].children) = 1
    /\ ~tree.children[2].expanded /\ Len(tree.children[2].children) = 1

\* A caller is between lock() and the drop of the guard.
InWriter(c) == callers[c].pc \in {"write_all", "flush"}

\* C30: input() holds the writer mutex from before write_all until after
\* flush, so at most one call is writing at a time, and the bytes of a call
\* lie next to one another in the PTY's input, in their order: every byte
\* but the first of its call comes right after the byte before it of the
\* same call.
C30_CallsNotInterleaved ==
    /\ \A c \in Callers : InWriter(c) => writer = c
    /\ \A c1, c2 \in Callers : InWriter(c1) /\ InWriter(c2) => c1 = c2
    /\ \A i \in 1..Len(stream) :
          stream[i].at > 1 =>
             /\ i > 1
             /\ stream[i - 1].who = stream[i].who
             /\ stream[i - 1].call = stream[i].call
             /\ stream[i - 1].at = stream[i].at - 1

\* One thread is in the middle of a two-byte write while the other waits
\* for the mutex, and a two-byte call of the other is in the stream already.
C30_Witness ==
    /\ callers["a"].pc = "write_all" /\ callers["a"].at = 1
    /\ callers["b"].pc = "lock" /\ Len(callers["b"].data) = 2
    /\ \E i \in 1..Len(stream) : stream[i].who = "b" /\ stream[i].at = 2

\* A command with no word in it.
Blank(command) == command # None /\ \A i \in 1..Len(command[2]) : command[2][i] = " "

\* What spawn returned is an error value.
IsErr(r) == r[1] = "Err"

\* C22: whichever of PTY open, an empty command, command spawn, writer
\* acquisition and reader clone fails, spawn returns an Err and does not
\* panic; the step that returns an Err starts no reader thread, leaves the
\* view and the session it holds as they were, and puts no event anywhere;
\* a view that never had a successful start has no thread and no events.
C22_SpawnFailureIsErr ==
    /\ [](spawned # NoAttempt =>
            /\ spawned.returned # panic
            /\ (spawned.failing # "none" \/ Blank(spawned.command))
                  => IsErr(spawned.returned)
            /\ (spawned.failing = "none" /\ ~Blank(spawned.command))
                  => spawned.returned = Ok)
    /\ [](view.terminal = None =>
            (pumpPc = "none" /\ ~childOpen /\ channel = <<>> /\ events = <<>>
                /\ sent = <<>> /\ polled = <<>>))
    /\ [][(spawned' # spawned /\ spawned'.returned # Ok) =>
             UNCHANGED <<view, pumpVars, envVars, channel, events, histVars, parser, rwlock>>]_vars

\* After a session has ended, a start whose reader clone failed returned
\* the error: the view still holds the ended session.
C22_Witness ==
    /\ spawned # NoAttempt
    /\ spawned.failing = "try_clone_reader"
    /\ spawned.returned = Err("Failed to clone reader")
    /\ view.has_exited
    /\ pumpPc = "done"

\* C25: a view is Unstarted until a start succeeds; it becomes running only
\* by a start() or start_command() that returned Ok, which gives it a fresh
\* session; when tick has consumed an Exit or an Error it is not running
\* (Exited with the code, or Errored); nothing else changes the view, so it
\* stays not running until a start succeeds.
C25_Lifecycle ==
    /\ [](view.terminal = None => (~view.has_exited /\ view.exit_code = None))
    /\ [](view.has_exited =>
            (/\ view.terminal # None
             /\ \E i \in 1..Len(polled) : IsExit(polled[i]) \/ IsError(polled[i])))
    /\ [](view.exit_code # None =>
            (\E i \in 1..Len(polled) :
                IsExit(polled[i]) /\ view.exit_code = Some(polled[i].code)))
    /\ [][/\ (~is_running /\ is_running') =>
               (/\ uiPc = "idle" /\ uiOp' = "start"
                /\ spawned'.returned = Ok
                /\ pumpPc' = "read" /\ channel' = <<>> /\ polled' = <<>>
                /\ parser' = NewParser(24, 80))
          /\ (uiPc = "poll" /\ uiPc' = "idle"
                 /\ \E i \in 1..Len(events) : IsExit(events[i]) \/ IsError(events[i])) =>
               (view'.has_exited /\ ~is_running')
          /\ view' # view =>
               (\/ uiPc = "poll" /\ uiPc' = "idle" /\ is_running /\ ~is_running'
                \/ uiPc = "idle" /\ uiOp' = "start" /\ spawned'.returned = Ok)]_vars

\* The session exited with code 0, tick consumed the Exit, and a start that
\* failed afterwards left the view Exited.
C25_Witness ==
    /\ view.terminal # None
    /\ view.has_exited
    /\ view.exit_code = Some(0)
    /\ spawned # NoAttempt
    /\ spawned.returned = Err("Failed to open PTY")

\* C23 as claimed: once the receiver is dropped, the send the pump makes
\* next fails and the pump leaves its loop: from a failed send it goes
\* nowhere but to its end.
C23_PumpEndsOnFailedSend ==
    [][(dropped /\ pumpPc \in {"send_output", "send_exit", "send_error"}
          /\ pumpPc' # pumpPc /\ channel' = channel)
        => pumpPc' = "done"]_vars

\* C24 as claimed: once the Terminal is dropped the PTY is closed, no
\* handle on its master side is left open, the reader's among them: the
\* reader thread of a dropped session has ended or is in its last step.
C24_DropClosesPty ==
    dropped => MasterHandles = {} \/ pumpPc \in {"send_exit", "send_error"}

\* C36: whenever the UI thread is about to start an operation on the
\* Terminal, size() is the dimensions of the parser's grid; the steps of the
\* pump leave the dimensions of the grid alone.
C36_SizeIsGridSize ==
    /\ [](uiPc = "idle" => size = TerminalSize(parser.rows, parser.cols))
    /\ [][pumpPc' # pumpPc => (parser'.rows = parser.rows /\ parser'.cols = parser.cols)]_vars

\* A resize to 10 x 40 has returned, output was processed before and after
\* it, and the UI is about to start its next operation.
C36_Witness ==
    /\ uiPc = "idle"
    /\ size = TerminalSize(10, 40)
    /\ parser.rows = 10
    /\ Len(processed) >= 2

\* C38: a start() or start_command() in which spawn returned an Err leaves
\* terminal, has_exited and exit_code of the view as they were.
C38_FailedStartKeepsView ==
    [][(uiOp' = "start" /\ IsErr(spawned'.returned)) =>
          /\ view'.terminal = view.terminal
          /\ view'.has_exited = view.has_exited
          /\ view'.exit_code = view.exit_code]_vars

\* The session ended with a read error, tick consumed the Error, and a
\* start_command with a blank command has just returned its Err: the view
\* is Errored still.
C38_Witness ==
    /\ uiOp = "start"
    /\ spawned.returned = Err("Empty command")
    /\ view.terminal # None
    /\ view.has_exited
    /\ view.exit_code = None

\* C33: the GUI hands bytes to input() only while is_running() holds.  A
\* call of input() is under way only in a running view; bytes reach the PTY
\* writer only then; and once tick has consumed an Exit or an Error, what
\* the UI thread starts is a start, a tick or nothing, never an input.
C33_ForwardOnlyWhileRunning ==
    /\ [](uiPc \in {"in_lock", "in_write"} => is_running)
    /\ [][(ptyIn' # ptyIn /\ ptyIn' # <<>>) => (is_running /\ is_running')]_vars
    /\ [][(view.has_exited /\ uiPc = "idle" /\ uiOp' # uiOp) =>
             uiOp' \in {"start", "poll_events", "ignored"}]_vars

\* The view is Exited, and the key pressed last, which was no Enter, was
\* dropped: nothing was written.
C33_Witness ==
    /\ view.has_exited
    /\ view.exit_code = Some(0)
    /\ uiOp = "ignored"
    /\ ptyIn = <<>>
    /\ writer = "none"

\* C37: what tick observes are events the pump of the session the view
\* holds has sent, in the order sent, nothing of a session replaced; so the
\* view is marked exited only when the pump of its own session has sent
\* Exit or Error and left its loop.
C37_SessionsIsolated ==
    /\ Received \o channel = sent
    /\ view.has_exited => pumpPc = "done"
    /\ view.has_exited => \E i \in 1..Len(sent) : IsExit(sent[i]) \/ IsError(sent[i])

\* The reader thread of a replaced session has sent its last event and
\* ended, while the new session runs and tick has observed output of it.
C37_Witness ==
    /\ orphan = "done"
    /\ is_running
    /\ pumpPc = "read"
    /\ polled # <<>>

\* C34: the copy cells() and row() make is made of a screen that has taken
\* whole chunks only, all those handed to process() so far, and whose grid
\* has the size the session records: no process() call is partway through
\* while the copy is made.
C34_SnapshotAtChunkBoundary ==
    (uiPc = "q_read" /\ uiOp \in {"cells", "row"}) =>
        /\ partial = 0
        /\ pumpPc # "process"
        /\ parser.fed = Flatten(processed)
        /\ size = TerminalSize(parser.rows, parser.cols)

\* cells() copies a 10 x 40 screen that has taken one chunk of two bytes,
\* while the pump waits for the write lock with the next chunk.
C34_Witness ==
    /\ uiPc = "q_read" /\ uiOp = "cells"
    /\ size = TerminalSize(10, 40)
    /\ processed # <<>> /\ Len(processed[1]) = 2
    /\ pumpPc = "lock"

\* C35 as claimed: the three reads of a frame see one and the same screen.
C35_FrameFromOneState ==
    \A i, j \in 1..Len(frame) : frame[i] = frame[j]

\* C32 as claimed: one iteration of run_app collects, and handles before the
\* next redraw, no more than 50 events.
C32_DrainAtMostFifty ==
    /\ batch <= DrainLimit
    /\ handled <= DrainLimit

MetTerminal ==
    /\ keyed.code # "none"
    /\ keyed.met.active_panel = "Terminal"
    /\ ~keyed.met.show_settings
    /\ ~keyed.met.is_searching
    /\ ~keyed.met.menu_open

\* C31 as claimed: Ctrl+C pressed in the Terminal panel with no overlay open
\* is not taken by a global action; it reaches the handler of the panel,
\* which writes the one byte 0x03 to the PTY.
C31_CtrlCReachesPty ==
    (MetTerminal /\ keyed.code = "Ctrl+c") =>
        (keyed.by = "panel" /\ keyed.bytes = <<3>>)

\* C40 as claimed: after any sequence of editor operations the editor has a
\* line, the cursor is in one of its lines and not beyond the end of it,
\* and no operation has panicked.
C40_CursorInRange ==
    /\ Len(editor.lines) >= 1
    /\ editor.cursor_row < Len(editor.lines)
    /\ editor.cursor_col <= Len(editor.lines[editor.cursor_row + 1])
    /\ ~editor.panicked

====
